---------------------------- MODULE Spec2Model ----------------------------
(***************************************************************************)
(* Model of the eligibility gating engine of the Telegram prediction bot   *)
(* (src/app.py): the ExpiringCache, the pooled storage access layer        *)
(* (init_db_pool / db_connection / db_cursor), the referral confirmation   *)
(* state machine (send_welcome / check_membership) and the eligibility     *)
(* gates of the handlers.                                                  *)
(*                                                                         *)
(* The groups of variables are driven by separate specifications:          *)
(*   SpecCache        one ExpiringCache used by concurrent threads         *)
(*   SpecPool         db_connection / init_db_pool under connectivity      *)
(*                    failures (SpecPoolFair: with fair scheduling)        *)
(*   Spec             /start and Verify Membership, run by the two worker  *)
(*                    threads, with membership changes and failures        *)
(*   SpecGate         the gated callbacks: get_prediction, request_live    *)
(*                    and verify_shares                                    *)
(*   SpecEligibility  the eligibility gates on every status and quota      *)
(*   SpecAdmin        /admin commands while the admins table changes        *)
(*   SpecLocks        check_membership, handle_prediction and save_referral *)
(*                    lock by lock, with the caches and pool_lock           *)
(*   SpecAdminActions the admin callbacks and process_text_message, run by  *)
(*                    an administrator and by another user                  *)
(*   SpecBatch        one call of send_batch_messages, send by send         *)
(*   SpecLive         request_live_prediction and clear_live_requests       *)
(*   SpecIdle         SpecPool while time passes, for maintain_pool         *)
(*   SpecPending      process_pending_referral and save_referral, lock by   *)
(*                    lock, with fair scheduling                            *)
(*   SpecBackground   pool_monitor and the webhook check thread, with fair  *)
(*                    scheduling                                            *)
(*   SpecFresh        SpecLocks with an inviter and the user it invited     *)
(***************************************************************************)
EXTENDS Integers, Sequences, FiniteSets, TLC

(***************************************************************************)
(* Python values.  None is the default returned by ExpiringCache.get/pop;  *)
(* the membership cache stores booleans, written 1 (True) and 0 (False).   *)
(***************************************************************************)
None == -1
PyTrue == 1
PyFalse == 0

(***************************************************************************)
(* Bounds of the model.                                                    *)
(***************************************************************************)
\* the ExpiringCache instance of SpecCache: ExpiringCache(max_size, ttl)
CacheMaxSize == 2
CacheTTL == 1
MaxNow == 2
NumCacheThreads == 2

\* SpecPool: worker threads, their storage calls, database outages, monitor cycles
NumWorkers == 2
MaxPoolCalls == 2
MaxOutages == 1
MaxCycles == 1
\* SpecIdle: time.time() at startup, the seconds that pass in one step of the
\* clock, and the time the clock stops at
BootTime == 1700000000
ElapseStep == 1800
MaxElapsed == 5400
\* SpecBackground: changes of the webhook made by others
MaxHijacks == 1

\* Spec: worker threads, handler calls, failures injected, membership changes
NumThreads == 2
MaxHandlerCalls == 2
MaxFailures == 1
MaxMemberChanges == 1
\* SpecBatch: the length of user_ids
MaxIds == 65
\* SpecEligibility: referral counts 0..MaxCount, quotas -1..MaxQuota
MaxCount == 3
MaxQuota == 2

CacheKeys == {1, 2, 3}
CacheVals == {1, 2}
CacheThreads == 1..NumCacheThreads

VARIABLES
    now,        \* time.time(), in seconds
    cache,      \* ExpiringCache.cache: OrderedDict, oldest inserted first
    cacheLock,  \* ExpiringCache.lock: 0 when free, else the holding thread
    cop,        \* per thread: the __setitem__ call in progress, if any
    ret,        \* history: the operation on the watched key completed last, if no
                \* other operation and no tick followed it
    watch,      \* history: the key whose operations are followed, any one key
    lastSet,    \* history: time and value of the latest set of the watched key
    popped,     \* history: the watched key was popped since its latest set
    evicted,    \* history: it was evicted for capacity since its latest set
    order,      \* history: the keys by insertion, and whether the watched key
                \* was overwritten while stored
    pool_lock,  \* pool_lock: 0 when free, else the holding thread
    db_pool,    \* the global db_pool: which pool object, and its idle connection
    dbUp,       \* the database server accepts connections
    stack,      \* per thread: its call stack, the active frame last
    calls,      \* storage calls started by the workers
    outages,    \* database outages so far
    cycles,     \* cycles started by pool_monitor
    hs,         \* per worker thread: the stack of handler frames
    db,         \* the committed tables
    membership_cache,
    referral_cache,
    member,     \* the platform: who is a member of the channel
    SHARES_REQUIRED,
    hcalls,     \* handler calls started
    fails,      \* failures injected
    changes,    \* membership changes on the platform
    hist,       \* history of the referral state machine and of the messages
                \* sent, for the claims
    cooldowns,  \* cooldowns: per user the time the cooldown ends, None if unset
    first_time_users,
    gate,       \* one evaluation of an eligibility gate: inputs and result
    batch,      \* one call of send_batch_messages: its arguments, locals and trace
    webhook,    \* the webhook registered at the platform, and the position of
                \* the thread that __main__ starts to check it
    locks,      \* the cache locks and cooldown_lock: 0 when free, else the holder
    snap        \* history: per thread the caches as its handler found them

cacheVars == <<now, cache, cacheLock, cop, ret, watch, lastSet, popped, evicted,
               order>>

poolVars == <<pool_lock, db_pool, dbUp, stack, calls, outages, cycles>>

\* pool_lock is shared: a db_cursor block of a handler runs while it is free
handlerVars == <<hs, db, membership_cache, referral_cache, member,
                 SHARES_REQUIRED, hcalls, fails, changes, hist,
                 cooldowns, first_time_users>>

gateVars == <<gate, batch, webhook>>

txVars == <<locks, snap>>

vars == <<now, cache, cacheLock, cop, ret, watch, lastSet, popped, evicted, order,
          pool_lock, db_pool, dbUp, stack, calls, outages, cycles,
          hs, db, membership_cache, referral_cache, member,
          SHARES_REQUIRED, hcalls, fails, changes, hist,
          cooldowns, first_time_users, gate, batch, webhook, locks, snap>>

(***************************************************************************)
(* ExpiringCache.  The OrderedDict is a sequence of entries [k, ts, v] in  *)
(* insertion order; assigning to a stored key keeps its position.          *)
(***************************************************************************)
Entry(k, ts, v) == [k |-> k, ts |-> ts, v |-> v]

KeyIndex(c, k) ==
    IF \E i \in 1..Len(c) : c[i].k = k
    THEN CHOOSE i \in 1..Len(c) : c[i].k = k
    ELSE 0

HasKey(c, k) == KeyIndex(c, k) # 0

RemoveAt(c, i) == SubSeq(c, 1, i - 1) \o SubSeq(c, i + 1, Len(c))

\* an assignment that moves an overwritten key to the newest position
StoreMoveToEnd(c, k, v, t) ==
    IF HasKey(c, k)
    THEN Append(RemoveAt(c, KeyIndex(c, k)), Entry(k, t, v))
    ELSE Append(c, Entry(k, t, v))

\* self.cache[key] = (time.time(), value)
Store(c, k, v, t) ==
    IF HasKey(c, k)
    THEN [c EXCEPT ![KeyIndex(c, k)] = Entry(k, t, v)]
    ELSE Append(c, Entry(k, t, v))

\* expired_keys = [k for k, (ts, _) in self.cache.items() if now - ts > self.ttl]
Expired(e, t, ttl) == t - e.ts > ttl

RECURSIVE DropExpired(_, _, _)
DropExpired(c, t, ttl) ==
    IF c = <<>> THEN <<>>
    ELSE IF Expired(Head(c), t, ttl)
         THEN DropExpired(Tail(c), t, ttl)
         ELSE <<Head(c)>> \o DropExpired(Tail(c), t, ttl)

\* a cleanup that only expires
EnforceNothing(c, maxSize) == c

\* while len(self.cache) > self.max_size: self.cache.popitem(last=False)
RECURSIVE EnforceMaxSize(_, _)
EnforceMaxSize(c, maxSize) ==
    IF Len(c) > maxSize THEN EnforceMaxSize(Tail(c), maxSize) ELSE c

Cleanup(c, t, ttl, maxSize) == EnforceMaxSize(DropExpired(c, t, ttl), maxSize)

\* __setitem__, whole: the assignment and _cleanup under the lock
SetItem(c, k, v, t, ttl, maxSize) == Cleanup(Store(c, k, v, t), t, ttl, maxSize)

\* a read that serves an entry one second too long
ExpiredOnReadLate(e, t, ttl) == t - e.ts > ttl + 1

\* if time.time() - timestamp > self.ttl
ExpiredOnRead(e, t, ttl) == t - e.ts > ttl

\* time.time() - timestamp of the entry stored under k, None without entry
StoredAge(c, k, t) == IF HasKey(c, k) THEN t - c[KeyIndex(c, k)].ts ELSE None

\* a get that reports an expired entry as missing but leaves it stored
GetKeepExpired(c, k, t, ttl) ==
    IF ~HasKey(c, k) THEN [r |-> None, c |-> c]
    ELSE LET i == KeyIndex(c, k) IN
         [r |-> IF ExpiredOnRead(c[i], t, ttl) THEN None ELSE c[i].v, c |-> c]

\* get(key): [r |-> value or None, c |-> the cache afterwards]
Get(c, k, t, ttl) ==
    IF ~HasKey(c, k) THEN [r |-> None, c |-> c]
    ELSE LET i == KeyIndex(c, k) IN
         IF ExpiredOnRead(c[i], t, ttl)
         THEN [r |-> None, c |-> RemoveAt(c, i)]
         ELSE [r |-> c[i].v, c |-> c]

\* a pop that leaves the entry in the cache
PopKeeps(c, k, t, ttl) == [r |-> None, c |-> c]

\* pop(key): the entry is removed whether or not it had expired
Pop(c, k, t, ttl) ==
    IF ~HasKey(c, k) THEN [r |-> None, c |-> c]
    ELSE LET i == KeyIndex(c, k) IN
         [r |-> IF ExpiredOnRead(c[i], t, ttl) THEN None ELSE c[i].v,
          c |-> RemoveAt(c, i)]

Keys(c) == {c[i].k : i \in 1..Len(c)}

\* list(self.cache): the stored keys, oldest position first
KeySeq(c) == [i \in 1..Len(c) |-> c[i].k]

\* history sequences of keys
Without(s, k) == SelectSeq(s, LAMBDA x : x # k)
Restrict(s, K) == SelectSeq(s, LAMBDA x : x \in K)
Range(s) == {s[i] : i \in 1..Len(s)}
Before(s, a, b) == \E i, j \in 1..Len(s) : i < j /\ s[i] = a /\ s[j] = b

(***************************************************************************)
(* The connection pool.  With minconn = 1 and every use serialised by      *)
(* pool_lock, a SimpleConnectionPool keeps at most one idle connection:    *)
(* getconn hands it out (or connects), putconn takes it back.  A           *)
(* connection is [gen, alive, keyed]: the pool object it was taken from,   *)
(* whether the server side still exists, and whether that pool still       *)
(* counts it as handed out.  db_pool.used is history: the time on the      *)
(* clock `now` at which the idle connection was last in use.               *)
(***************************************************************************)
Workers == 1..NumWorkers
Monitor == NumWorkers + 1
PoolThreads == Workers \cup {Monitor}

NoConn == [gen |-> 0, alive |-> FALSE, keyed |-> FALSE]

\* a frame of a thread's stack: the function, its position, its conn, the
\* attempt number of init_db_pool's retry decorator, the exception in flight
Frame(fn, pc) == [fn |-> fn, pc |-> pc, conn |-> NoConn, att |-> 0, exc |-> "none"]

Top(stk) == stk[Len(stk)]
SetTop(stk, f) == [stk EXCEPT ![Len(stk)] = f]
PopFrame(stk) == SubSeq(stk, 1, Len(stk) - 1)

\* stop_after_attempt(3)
MaxAttempts == 3

\* the state after the startup of __main__: the pool created, one idle connection
PoolStart ==
    /\ pool_lock = 0
    /\ db_pool = [gen |-> 1, idle |-> "alive", used |-> 0]
    /\ dbUp = TRUE
    /\ stack = [t \in PoolThreads |->
                   IF t = Monitor THEN <<Frame("monitor", "sleep")>>
                   ELSE <<Frame("worker", "idle")>>]
    /\ calls = 0
    /\ outages = 0
    /\ cycles = 0

\* a frame has returned r ("ok" or the exception raised) to the stack stk of
\* its callers: the stack after the callers have handled it
RECURSIVE Unwind(_, _)
Unwind(stk, r) ==
    LET f == Top(stk) IN
    CASE f.fn = "worker" -> SetTop(stk, [f EXCEPT !.pc = "idle", !.exc = r])
      [] f.fn = "monitor" ->
            \* check_pool_health is False on any exception; the loop's except
            \* swallows what init_db_pool raises
            SetTop(stk, [f EXCEPT !.pc =
                IF f.pc = "health"
                THEN (IF r = "ok" THEN "maintain" ELSE "reinit")
                ELSE (IF r = "ok" THEN "maintain" ELSE "sleep")])
      [] f.fn = "init" ->
            \* the db_connection block of init_db_pool has ended
            IF r = "ok" THEN Unwind(PopFrame(stk), "ok")
            ELSE IF f.att < MaxAttempts
                 THEN SetTop(stk, [f EXCEPT !.att = f.att + 1, !.pc = "create"])
                 ELSE Unwind(PopFrame(stk), "retry")
      [] OTHER ->
            \* db_connection after its init_db_pool(): a bare raise of the
            \* connectivity error, unless init_db_pool itself raised
            SetTop(stk, [f EXCEPT !.pc = "final",
                                  !.exc = IF r = "ok" THEN "conn" ELSE r])

(***************************************************************************)
(* The handlers.  A worker thread runs one handler at a time; hs[t] is its *)
(* stack of frames [fn, pc, u, from, ref, m, rc, adm, mfail, cfail]: the   *)
(* function, its position, the chat id it works for, the id of             *)
(* message.from_user, the referrer it holds, the status it has resolved,   *)
(* and whether the membership check or the count query failed in resolving *)
(* it.                                                                     *)
(***************************************************************************)
Threads == 1..NumThreads
Users == {1, 2}
\* the users whose messages and callbacks the workers handle
Actors == {1}
RefIds == {1, 2, 3}
Bot == 4
Ids == RefIds \cup {Bot}
AdminIds == {1}

\* what follows /start in message.text: nothing, or one more word
Tokens == {"", "abc", "0", "1", "2"}

\* len(message.text.split()) > 1
HasArg(tok) == tok # ""

\* safe_int_convert: int(value), or the default 0
safe_int_convert(tok) ==
    CASE tok = "0" -> 0
      [] tok = "1" -> 1
      [] tok = "2" -> 2
      [] tok = "3" -> 3
      [] OTHER -> 0

\* a check that forgets the sender
RefValidAnyUser(referrer_id, user_id) == referrer_id # 0

\* if referrer_id != 0 and referrer_id != user_id
RefValid(referrer_id, user_id) == referrer_id # 0 /\ referrer_id # user_id

\* membership_cache = ExpiringCache(max_size=5000, ttl=1800), referral_cache
\* = ExpiringCache(max_size=5000, ttl=3600)
CACHE_MAX_SIZE == 5000
MEMBERSHIP_TTL == 1800
REFERRAL_TTL == 3600

(***************************************************************************)
(* Tables.  pending[b] lists the referrer_id of the pending_referrals rows *)
(* with referred_id = b, referrals[<<a, b>>] counts the referrals rows     *)
(* (a, b), users[i] the users rows of i, live[u] the live_requests rows.   *)
(***************************************************************************)
Pairs == RefIds \X Users

NoTables == [pending |-> [b \in Users |-> <<>>],
             referrals |-> [p \in Pairs |-> 0],
             users |-> [i \in Ids |-> 0],
             live |-> [u \in Users |-> 0],
             admins |-> AdminIds]

\* a list of admins read once, at startup
IsAdminAtStartup(tb, user_id) == user_id \in AdminIds

\* SELECT 1 FROM admins WHERE user_id = %s; cur.fetchone() is not None
IsAdmin(tb, user_id) == user_id \in tb.admins

\* INSERT INTO pending_referrals ... that ignores a conflict
InsertPendingKeepFirst(tb, referrer_id, user_id) ==
    IF tb.pending[user_id] # <<>> THEN tb
    ELSE [tb EXCEPT !.pending[user_id] = <<referrer_id>>]

\* INSERT INTO pending_referrals ... ON CONFLICT (referred_id) DO UPDATE
\* SET referrer_id = EXCLUDED.referrer_id
UpsertPending(tb, referrer_id, user_id) ==
    IF tb.pending[user_id] # <<>>
    THEN [tb EXCEPT !.pending[user_id] = [i \in 1..Len(@) |-> referrer_id]]
    ELSE [tb EXCEPT !.pending[user_id] = <<referrer_id>>]

\* a SELECT in place of the DELETE
KeepPending(tb, user_id) == tb

\* DELETE FROM pending_referrals WHERE referred_id = %s
DeletePending(tb, user_id) == [tb EXCEPT !.pending[user_id] = <<>>]

\* a statement that returns the user's own id when it deleted no row
ReturningSelf(tb, user_id) ==
    IF tb.pending[user_id] = <<>> THEN user_id ELSE Head(tb.pending[user_id])

\* ... RETURNING referrer_id, fetchone(): 0 stands for no row
Returning(tb, user_id) ==
    IF tb.pending[user_id] = <<>> THEN 0 ELSE Head(tb.pending[user_id])

\* a write that keeps the new referrals row only
ReplaceReferrals(tb, referrer_id, user_id) ==
    [tb EXCEPT !.referrals =
        [p \in Pairs |-> IF p = <<referrer_id, user_id>> THEN 1 ELSE 0]]

\* INSERT INTO referrals ... ON CONFLICT DO NOTHING, under UNIQUE(referrer_id,
\* referred_id)
InsertReferral(tb, referrer_id, user_id) ==
    IF tb.referrals[<<referrer_id, user_id>>] > 0 THEN tb
    ELSE [tb EXCEPT !.referrals[<<referrer_id, user_id>>] = 1]

RECURSIVE SumOver(_, _)
SumOver(f, S) ==
    IF S = {} THEN 0
    ELSE LET x == CHOOSE y \in S : TRUE IN f[x] + SumOver(f, S \ {x})

\* SELECT COUNT(*) FROM referrals WHERE referrer_id = %s
CountReferrals(tb, user_id) ==
    IF user_id \in RefIds
    THEN SumOver([b \in Users |-> tb.referrals[<<user_id, b>>]], Users)
    ELSE 0

\* the referrals rows whose referred_id is b
RowsReferred(tb, b) == SumOver([a \in RefIds |-> tb.referrals[<<a, b>>]], RefIds)

(***************************************************************************)
(* The eligibility gates, as each handler writes them.                     *)
(***************************************************************************)
\* a gate that takes every member, whatever the referral count
GateWelcomeNoQuota(m, rc, sr) == m = PyTrue

\* send_welcome, get_main_markup, save_user_if_eligible, the broadcast filters
GateWelcome(m, rc, sr) == m = PyTrue /\ (sr = 0 \/ rc >= sr)

\* a gate that forgets the quota
GatePredictionNoQuota(m, rc, sr) == m = PyTrue

\* a quota test that is off by one
GatePredictionOffByOne(m, rc, sr) == ~(m # PyTrue) /\ ~(sr > 0 /\ rc <= sr)

\* handle_prediction, request_live_prediction: two early returns
GatePrediction(m, rc, sr) == ~(m # PyTrue) /\ ~(sr > 0 /\ rc < sr)

\* check_membership, verify_shares: the membership test, then the quota test
GateVerify(m, rc, sr) == IF m = PyTrue THEN (sr = 0 \/ rc >= sr) ELSE FALSE

(***************************************************************************)
(* Frames, calls and returns.                                              *)
(***************************************************************************)
HFrame(fn, pc, u, from, ref) ==
    [fn |-> fn, pc |-> pc, u |-> u, from |-> from, ref |-> ref,
     m |-> None, rc |-> None, adm |-> FALSE, mfail |-> FALSE, cfail |-> FALSE]

IdleFrame == HFrame("idle", "idle", 0, 0, 0)

\* the active frame moves to pc and calls callee
CallFrom(stk, pc, callee) == Append(SetTop(stk, [Top(stk) EXCEPT !.pc = pc]), callee)

\* the active frame returns; a caller left at "ret" returns with it
RECURSIVE Return(_)
Return(stk) ==
    LET s == PopFrame(stk) IN IF Top(s).pc = "ret" THEN Return(s) ELSE s

\* the positions at which the caller is get_main_markup, which keeps the
\* status to itself
MarkupPcs == {"w_send", "h_send"}

\* get_user_status returns its status dict to the caller
ReturnStatus(stk) ==
    LET g == Top(stk)
        s == PopFrame(stk)
        c == SetTop(s, [Top(s) EXCEPT !.m = g.m, !.rc = g.rc, !.adm = g.adm,
                                      !.mfail = g.mfail, !.cfail = g.cfail])
    IN IF Top(s).pc \in MarkupPcs THEN s ELSE c

GusFrame(u) == HFrame("gus", "g_get", u, 0, 0)

\* a failed check that lets the user pass as a member
OnCheckFailedOpen(f) == [f EXCEPT !.m = PyTrue, !.mfail = TRUE]

\* except Exception: status['is_member'] = False
OnCheckFailed(f) == [f EXCEPT !.m = PyFalse, !.mfail = TRUE]

\* membership resolved: the referral count is next, if it was not cached
AfterMembership(stk, f) ==
    IF f.rc = None THEN SetTop(stk, [f EXCEPT !.pc = "g_cnt"])
    ELSE ReturnStatus(SetTop(stk, f))

\* the referrer a table credits or holds for b, 0 for none
ReferrerOf(tb, b) ==
    IF tb.pending[b] # <<>> THEN Head(tb.pending[b])
    ELSE IF \E a \in RefIds : tb.referrals[<<a, b>>] > 0
         THEN CHOOSE a \in RefIds : tb.referrals[<<a, b>>] > 0
         ELSE 0

\* the history of a run that led to the tables tb: a pending row was written by
\* a /start, a referrals row by one verification of a member
HistOf(tb, mem) ==
    [confirms |-> [u \in Users |->
                     IF tb.pending[u] = <<>> /\ RowsReferred(tb, u) > 0 THEN 1 ELSE 0],
     attempts |-> [u \in Users |->
                     IF tb.pending[u] = <<>> /\ RowsReferred(tb, u) > 0 THEN 1 ELSE 0],
     lastRef |-> [u \in Users |-> ReferrerOf(tb, u)],
     prevRef |-> [u \in Users |-> 0],
     everMember |-> [u \in Users |-> mem[u] \/ RowsReferred(tb, u) > 0],
     sent |-> [u \in Users |-> 0],
     denied |-> [u \in Users |-> 0],
     broadcast |-> [u \in Users |-> 0]]

COOLDOWN_SECONDS == 120

HandlerStart(tb, mem, sr) ==
    /\ hs = [t \in Threads |-> <<IdleFrame>>]
    /\ db = tb
    /\ membership_cache = <<>>
    /\ referral_cache = <<>>
    /\ member = [i \in Users \cup {Bot} |-> IF i = Bot THEN TRUE ELSE mem[i]]
    /\ SHARES_REQUIRED = sr
    /\ hcalls = 0
    /\ fails = 0
    /\ changes = 0
    /\ hist = HistOf(tb, mem)
    /\ cooldowns = [u \in Users |-> None]
    /\ first_time_users = {}

\* send_batch_messages not called: user_ids is the argument, i and j the
\* loop positions, size the length of the current batch; trace lists the
\* ids passed to send_func and a 0 for every time.sleep(DELAY), raised
\* counts the sends that raised, batches the batches taken
NoBatch ==
    [pc |-> "idle", user_ids |-> <<>>, i |-> 0, j |-> 0, size |-> 0,
     success |-> 0, failures |-> 0, trace |-> <<>>, raised |-> 0, batches |-> 0]

BatchStart == batch = NoBatch

\* after set_secure_webhook() of __main__: the webhook is the program's own
\* url, the checking thread is in its time.sleep(3600); hijacks counts the
\* changes of the webhook made by others, checks the calls of
\* verify_webhook_ownership
WebhookStart == webhook = [pc |-> "sleep", url |-> "ours", hijacks |-> 0, checks |-> 0]

\* no gate evaluated yet, on the inputs m, rc, sr
GateStart(m, rc, sr) ==
    gate = [m |-> m, rc |-> rc, sr |-> sr, fn |-> "none", res |-> FALSE]

\* the locks of the caches and of the cooldown table, next to pool_lock
LockNames == {"membership_cache.lock", "referral_cache.lock", "cooldown_lock"}

\* every lock free, no handler started
TxStart ==
    /\ locks = [l \in LockNames |-> 0]
    /\ snap = [t \in Threads |-> None]

\* the failures a run may meet: a commit that fails, a platform query that
\* fails
MayFail == fails < MaxFailures

(***************************************************************************)
(* SpecCache: threads calling set, get and pop on one cache; the clock.    *)
(***************************************************************************)
NoOp == [op |-> "none", k |-> 0, r |-> None, age |-> None]
NoSet == [t |-> None, v |-> None]

\* order.ins: a key enters at the end when it is set while not stored and
\* leaves when its entry is removed, whatever removed it.
\* order.claim: a key enters at the end when it is set for the first time or
\* after a pop, and leaves only when it is popped.
\* order.over: the watched key was set while stored, since it was inserted.
NoOrder == [ins |-> <<>>, claim |-> <<>>, over |-> FALSE]

CacheStart(w) ==
    /\ now = 0
    /\ cache = <<>>
    /\ cacheLock = 0
    /\ cop = [t \in CacheThreads |-> "idle"]
    /\ ret = NoOp
    /\ watch = w
    /\ lastSet = NoSet
    /\ popped = FALSE
    /\ evicted = FALSE
    /\ order = NoOrder

\* every specification starts from the state after startup
NobodyJoined == [u \in Users |-> FALSE]

Init == CacheStart(1) /\ PoolStart /\ TxStart /\ BatchStart /\ WebhookStart /\ HandlerStart(NoTables, NobodyJoined, 1) /\ GateStart(PyFalse, 0, 1)

CacheInit == (\E w \in CacheKeys : CacheStart(w)) /\ PoolStart /\ TxStart /\ BatchStart /\ WebhookStart /\ HandlerStart(NoTables, NobodyJoined, 1) /\ GateStart(PyFalse, 0, 1)

\* __setitem__ up to the assignment: the lock is taken, the entry stored
CacheSetStore(t, k, v) ==
    /\ cop[t] = "idle"
    /\ cacheLock = 0
    /\ cacheLock' = t
    /\ cache' = Store(cache, k, v, now)
    /\ cop' = [cop EXCEPT ![t] = "cleanup"]
    /\ ret' = IF k = watch THEN [op |-> "set", k |-> k, r |-> None, age |-> None] ELSE NoOp
    /\ lastSet' = IF k = watch THEN [t |-> now, v |-> v] ELSE lastSet
    /\ popped' = (k # watch /\ popped)
    /\ evicted' = (k # watch /\ evicted)
    /\ order' = [ins |-> IF HasKey(cache, k) THEN order.ins
                         ELSE Append(order.ins, k),
                 claim |-> IF k \in Range(order.claim) THEN order.claim
                           ELSE Append(order.claim, k),
                 over |-> IF k = watch THEN HasKey(cache, k) ELSE order.over]
    /\ UNCHANGED <<poolVars, handlerVars, gateVars, txVars, now, watch>>

\* the rest of __setitem__: _cleanup, then the lock is released
CacheSetCleanup(t) ==
    /\ cop[t] = "cleanup"
    /\ cacheLock = t
    /\ LET live == DropExpired(cache, now, CacheTTL)
           kept == Cleanup(cache, now, CacheTTL, CacheMaxSize)
       IN /\ cache' = kept
          /\ evicted' = (evicted \/ (watch \in Keys(live) /\ watch \notin Keys(kept)))
          /\ order' = [order EXCEPT !.ins = Restrict(@, Keys(kept))]
    /\ cacheLock' = 0
    /\ cop' = [cop EXCEPT ![t] = "idle"]
    /\ UNCHANGED <<poolVars, handlerVars, gateVars, txVars, now, ret, watch, lastSet, popped>>

CacheGet(t, k) ==
    /\ cop[t] = "idle"
    /\ cacheLock = 0
    /\ LET g == Get(cache, k, now, CacheTTL)
       IN /\ cache' = g.c
          /\ ret' = IF k = watch THEN [op |-> "get", k |-> k, r |-> g.r, age |-> StoredAge(cache, k, now)] ELSE NoOp
          /\ order' = [order EXCEPT !.ins = Restrict(@, Keys(g.c))]
    /\ UNCHANGED <<poolVars, handlerVars, gateVars, txVars, now, cacheLock, cop, watch, lastSet, popped, evicted>>

CachePop(t, k) ==
    /\ cop[t] = "idle"
    /\ cacheLock = 0
    /\ LET p == Pop(cache, k, now, CacheTTL)
       IN /\ cache' = p.c
          /\ ret' = IF k = watch THEN [op |-> "pop", k |-> k, r |-> p.r, age |-> StoredAge(cache, k, now)] ELSE NoOp
    /\ popped' = (popped \/ k = watch)
    /\ order' = [order EXCEPT !.ins = Without(@, k), !.claim = Without(@, k)]
    /\ UNCHANGED <<poolVars, handlerVars, gateVars, txVars, now, cacheLock, cop, watch, lastSet, evicted>>

Tick ==
    /\ now < MaxNow
    /\ now' = now + 1
    /\ ret' = NoOp
    /\ UNCHANGED <<poolVars, handlerVars, gateVars, txVars, cache, cacheLock, cop, watch, lastSet, popped, evicted, order>>

CacheNext ==
    \/ \E t \in CacheThreads, k \in CacheKeys, v \in CacheVals : CacheSetStore(t, k, v)
    \/ \E t \in CacheThreads : CacheSetCleanup(t)
    \/ \E t \in CacheThreads, k \in CacheKeys : CacheGet(t, k)
    \/ \E t \in CacheThreads, k \in CacheKeys : CachePop(t, k)
    \/ Tick

SpecCache == CacheInit /\ [][CacheNext]_vars

(***************************************************************************)
(* Claims about the cache, checked under SpecCache.                        *)
(***************************************************************************)
WatchedAge == now - lastSet.t

\* C9: whenever no cache operation is in progress (the lock is free), the
\* number of stored entries is at most max_size.
C9_OccupancyBounded == cacheLock = 0 => Len(cache) <= CacheMaxSize

\* a set pushed the cache over capacity, its cleanup evicted the watched key
\* and the operation is over with the cache full
C9_Witness == cacheLock = 0 /\ evicted /\ Len(cache) = CacheMaxSize

\* C10 as stated: a get(k) after set(k, v) returns v within TTL of that set
\* (k not popped or set again in between) and absent after TTL.
C10_Original ==
    (ret.op = "get" /\ lastSet # NoSet /\ ~popped) =>
        IF WatchedAge <= CacheTTL THEN ret.r = lastSet.v ELSE ret.r = None

\* C10 amended: a get(k) within TTL of the latest set(k, v) returns v provided
\* k was neither popped nor evicted for capacity since that set; a get(k)
\* after TTL has elapsed since the latest set of k returns absent.
C10_RoundTrip ==
    (ret.op = "get" /\ lastSet # NoSet) =>
        /\ (WatchedAge <= CacheTTL /\ ~popped /\ ~evicted) => ret.r = lastSet.v
        /\ WatchedAge > CacheTTL => ret.r = None

\* a get at the very end of the TTL window that returned the value set
C10_Witness ==
    /\ ret.op = "get"
    /\ lastSet # NoSet
    /\ WatchedAge = CacheTTL
    /\ ret.r = lastSet.v

\* C11: a get or pop never returns a value whose age (now minus the stored
\* timestamp) exceeds TTL; for an expired entry both return absent, and
\* after the call the entry is no longer stored.
C11_NoStaleRead ==
    (ret.op \in {"get", "pop"}) =>
        /\ ret.r # None => (ret.age # None /\ ret.age <= CacheTTL)
        /\ (ret.age # None /\ ret.age > CacheTTL) =>
              (ret.r = None /\ ~HasKey(cache, watch))

\* a get found the watched entry older than TTL, returned absent and the
\* entry is gone
C11_Witness ==
    /\ ret.op = "get"
    /\ ret.age # None
    /\ ret.age > CacheTTL
    /\ ret.r = None
    /\ ~HasKey(cache, watch)

\* the keys a cleanup step evicts for capacity, and the keys it keeps
CleanupStep == \E t \in CacheThreads : cop[t] = "cleanup" /\ cop'[t] = "idle"
Live == DropExpired(cache, now, CacheTTL)
EvictedKeys == Keys(Live) \ Keys(cache')
GetStep(k) == ret'.op = "get" /\ ret'.k = k /\ ret'.r # None
OverwriteStep(k) ==
    /\ HasKey(cache, k)
    /\ \E t \in CacheThreads : cop[t] = "idle" /\ cop'[t] = "cleanup"
    /\ cache'[KeyIndex(cache', k)].ts = now
    /\ ret'.op = "set" /\ ret'.k = k

PoolCall(t) ==
    /\ t \in Workers
    /\ Len(stack[t]) = 1
    /\ calls < MaxPoolCalls
    /\ calls' = calls + 1
    /\ stack' = [stack EXCEPT ![t] = Append(@, Frame("dbc", "lock"))]
    /\ UNCHANGED <<pool_lock, db_pool, dbUp, outages, cycles>>
    /\ UNCHANGED <<cacheVars, handlerVars, gateVars, txVars>>

\* a db_connection that goes on without waiting for pool_lock
EnterWithoutLock(t) ==
    /\ Top(stack[t]).fn = "dbc"
    /\ Top(stack[t]).pc = "lock"
    /\ pool_lock' = t
    /\ stack' = [stack EXCEPT ![t] = SetTop(@, [Top(@) EXCEPT !.pc = "getconn"])]
    /\ UNCHANGED <<db_pool, dbUp, calls, outages, cycles>>
    /\ UNCHANGED <<cacheVars, handlerVars, gateVars, txVars>>

\* db_connection: with pool_lock (threading.Lock, not reentrant)
AcquirePoolLock(t) ==
    /\ Top(stack[t]).fn = "dbc"
    /\ Top(stack[t]).pc = "lock"
    /\ pool_lock = 0
    /\ pool_lock' = t
    /\ stack' = [stack EXCEPT ![t] = SetTop(@, [Top(@) EXCEPT !.pc = "getconn"])]
    /\ UNCHANGED <<db_pool, dbUp, calls, outages, cycles>>
    /\ UNCHANGED <<cacheVars, handlerVars, gateVars, txVars>>

\* conn = db_pool.getconn() and the SELECT 1 that validates it
GetConn(t) ==
    /\ Top(stack[t]).fn = "dbc"
    /\ Top(stack[t]).pc = "getconn"
    /\ LET f == Top(stack[t])
           fresh == db_pool.idle = "none"
           c == IF fresh /\ ~dbUp THEN NoConn
                ELSE [gen |-> db_pool.gen,
                      alive |-> IF fresh THEN TRUE ELSE db_pool.idle = "alive",
                      keyed |-> TRUE]
       IN /\ db_pool' = [db_pool EXCEPT !.idle = "none"]
          /\ stack' = [stack EXCEPT ![t] = SetTop(@,
                [f EXCEPT !.conn = c, !.pc = IF c.alive THEN "body" ELSE "connfail"])]
    /\ UNCHANGED <<pool_lock, dbUp, calls, outages, cycles>>
    /\ UNCHANGED <<cacheVars, handlerVars, gateVars, txVars>>

\* the block under the yield, with db_cursor's commit or rollback: it ends
\* normally, raises some other error, or hits a lost connection
Body(t) ==
    /\ Top(stack[t]).fn = "dbc"
    /\ Top(stack[t]).pc = "body"
    /\ LET f == Top(stack[t]) IN
       \E outcome \in {"ok", "other"} :
          stack' = [stack EXCEPT ![t] = SetTop(@,
              IF f.conn.alive THEN [f EXCEPT !.pc = "final", !.exc = outcome]
              ELSE [f EXCEPT !.pc = "connfail"])]
    /\ UNCHANGED <<pool_lock, db_pool, dbUp, calls, outages, cycles>>
    /\ UNCHANGED <<cacheVars, handlerVars, gateVars, txVars>>

\* except (InterfaceError, OperationalError): the connection is discarded
\* and init_db_pool() is called, pool_lock still held
ConnFail(t) ==
    /\ Top(stack[t]).fn = "dbc"
    /\ Top(stack[t]).pc = "connfail"
    /\ LET f == Top(stack[t])
           g == [f EXCEPT !.pc = "reinit", !.conn.alive = FALSE, !.conn.keyed = FALSE]
       IN stack' = [stack EXCEPT ![t] =
                       Append(SetTop(@, g), [Frame("init", "create") EXCEPT !.att = 1])]
    /\ UNCHANGED <<pool_lock, db_pool, dbUp, calls, outages, cycles>>
    /\ UNCHANGED <<cacheVars, handlerVars, gateVars, txVars>>

\* one attempt of init_db_pool up to its db_connection block: the new pool
\* replaces db_pool, or the connect fails and the decorator retries or gives up
InitCreate(t) ==
    /\ Top(stack[t]).fn = "init"
    /\ Top(stack[t]).pc = "create"
    /\ LET f == Top(stack[t]) IN
       IF dbUp
       THEN /\ db_pool' = [gen |-> db_pool.gen + 1, idle |-> "alive", used |-> now]
            /\ stack' = [stack EXCEPT ![t] =
                            Append(SetTop(@, [f EXCEPT !.pc = "block"]),
                                   Frame("dbc", "lock"))]
       ELSE /\ db_pool' = db_pool
            /\ stack' = [stack EXCEPT ![t] =
                            IF f.att < MaxAttempts
                            THEN SetTop(@, [f EXCEPT !.att = f.att + 1])
                            ELSE Unwind(PopFrame(@), "retry")]
    /\ UNCHANGED <<pool_lock, dbUp, calls, outages, cycles>>
    /\ UNCHANGED <<cacheVars, handlerVars, gateVars, txVars>>

\* finally: db_pool.putconn(conn), or conn.close() when the pool refuses it;
\* then pool_lock is released and the call returns or raises
Finally(t) ==
    /\ Top(stack[t]).fn = "dbc"
    /\ Top(stack[t]).pc = "final"
    /\ LET f == Top(stack[t])
           back == f.conn.keyed /\ f.conn.gen = db_pool.gen /\ f.conn.alive
       IN /\ db_pool' = IF back THEN [db_pool EXCEPT !.idle = "alive", !.used = now]
                        ELSE db_pool
          /\ stack' = [stack EXCEPT ![t] = Unwind(PopFrame(@), f.exc)]
    /\ pool_lock' = 0
    /\ UNCHANGED <<dbUp, calls, outages, cycles>>
    /\ UNCHANGED <<cacheVars, handlerVars, gateVars, txVars>>

\* pool_monitor wakes up and calls check_pool_health
MonitorWake(t) ==
    /\ Top(stack[t]).fn = "monitor"
    /\ Top(stack[t]).pc = "sleep"
    /\ cycles < MaxCycles
    /\ cycles' = cycles + 1
    /\ stack' = [stack EXCEPT ![t] =
                    Append(SetTop(@, [Top(@) EXCEPT !.pc = "health"]), Frame("dbc", "lock"))]
    /\ UNCHANGED <<pool_lock, db_pool, dbUp, calls, outages>>
    /\ UNCHANGED <<cacheVars, handlerVars, gateVars, txVars>>

\* the health check failed: init_db_pool(), called without pool_lock
MonitorReinit(t) ==
    /\ Top(stack[t]).fn = "monitor"
    /\ Top(stack[t]).pc = "reinit"
    /\ stack' = [stack EXCEPT ![t] = Append(@, [Frame("init", "create") EXCEPT !.att = 1])]
    /\ UNCHANGED <<pool_lock, db_pool, dbUp, calls, outages, cycles>>
    /\ UNCHANGED <<cacheVars, handlerVars, gateVars, txVars>>

\* time.time(): the clock at startup and the seconds gone since
time_time == BootTime + now

\* idle_threshold = time.time() - 3600
idle_threshold == time_time - 3600

\* getattr(conn, '_used', 0): no statement of the program sets the attribute
\* on a connection and the pool keeps its bookkeeping in its own _used
\* dictionary, so the default is what comes back
UsedAttr(p) == 0

\* maintain_pool: under pool_lock every connection of db_pool._pool whose
\* _used attribute is below the threshold is removed and closed
MaintainPool(t) ==
    /\ Top(stack[t]).fn = "monitor"
    /\ Top(stack[t]).pc = "maintain"
    /\ pool_lock = 0
    /\ db_pool' = IF db_pool.idle # "none" /\ UsedAttr(db_pool) < idle_threshold
                  THEN [db_pool EXCEPT !.idle = "none"]
                  ELSE db_pool
    /\ stack' = [stack EXCEPT ![t] = SetTop(@, [Top(@) EXCEPT !.pc = "sleep"])]
    /\ UNCHANGED <<pool_lock, dbUp, calls, outages, cycles>>
    /\ UNCHANGED <<cacheVars, handlerVars, gateVars, txVars>>

PoolStep(t) ==
    \/ PoolCall(t)
    \/ AcquirePoolLock(t)
    \/ GetConn(t)
    \/ Body(t)
    \/ ConnFail(t)
    \/ InitCreate(t)
    \/ Finally(t)
    \/ MonitorWake(t)
    \/ MonitorReinit(t)
    \/ MaintainPool(t)

\* the server goes away: every established connection is lost
DbDown ==
    /\ dbUp
    /\ outages < MaxOutages
    /\ outages' = outages + 1
    /\ dbUp' = FALSE
    /\ db_pool' = [db_pool EXCEPT !.idle = IF @ = "none" THEN "none" ELSE "broken"]
    /\ stack' = [t \in PoolThreads |->
                    [i \in 1..Len(stack[t]) |-> [stack[t][i] EXCEPT !.conn.alive = FALSE]]]
    /\ UNCHANGED <<pool_lock, calls, cycles>>
    /\ UNCHANGED <<cacheVars, handlerVars, gateVars, txVars>>

\* the server is back
DbUp ==
    /\ ~dbUp
    /\ dbUp' = TRUE
    /\ UNCHANGED <<pool_lock, db_pool, stack, calls, outages, cycles>>
    /\ UNCHANGED <<cacheVars, handlerVars, gateVars, txVars>>

PoolNext ==
    \/ \E t \in PoolThreads : PoolStep(t)
    \/ DbDown
    \/ DbUp

SpecPool == Init /\ [][PoolNext]_vars

\* threads are scheduled fairly; the database owes nothing
SpecPoolFair == SpecPool /\ \A t \in PoolThreads : WF_vars(PoolStep(t))

(***************************************************************************)
(* Claims about the pool.                                                  *)
(***************************************************************************)
InFailure(t) == \E i \in 1..Len(stack[t]) : stack[t][i].pc \in {"connfail", "reinit"}

Returned(t) == Len(stack[t]) = 1 /\ pool_lock # t

\* C1: after a connectivity failure inside db_connection the failing call
\* terminates with pool_lock released, and every call under way by any
\* thread eventually completes.
C1_Recovers ==
    /\ \A t \in Workers : InFailure(t) ~> Returned(t)
    /\ \A t \in Workers : (Len(stack[t]) > 1) ~> Returned(t)

\* a db_connection call of thread t is in its handler for a connectivity
\* error, the connection discarded
Discarded(t) ==
    \E i \in 1..Len(stack[t]) :
        stack[t][i].fn = "dbc" /\ stack[t][i].pc = "reinit"

\* a db_connection call of thread t that handled a connectivity error is
\* leaving with that error
Reraised(t) ==
    \E i \in 1..Len(stack[t]) :
        /\ stack[t][i].fn = "dbc"
        /\ stack[t][i].pc = "final"
        /\ stack[t][i].exc = "conn"

\* C13: when validation or use of an acquired connection raises a
\* connectivity error, the connection is discarded, the pool is
\* reinitialized and then the connectivity error is re-raised to the caller
\* of db_connection.
C13_DiscardReinitReraise == \A t \in PoolThreads : Discarded(t) ~> Reraised(t)

\* worker t is inside the block of a db_cursor call of its own
InBody(t) ==
    /\ Len(stack[t]) = 2
    /\ Top(stack[t]).fn = "dbc"
    /\ Top(stack[t]).pc = "body"

\* the db_cursor call of worker t is over, pool_lock released: the block
\* returned and was committed ("ok"), or the exception the block raised
\* ("other", or the connectivity error "conn") reached the caller
UnitEnded(t) ==
    /\ Returned(t)
    /\ Top(stack[t]).exc \in {"ok", "other", "conn"}

\* C14: every db_cursor unit of work ends: committed when the body returns
\* normally, rolled back with the body's exception propagated when it
\* raises, and in both cases the connection is given back (or closed) and
\* pool_lock is released.
C14_UnitOfWorkEnds == \A t \in Workers : InBody(t) ~> UnitEnded(t)

\* thread t is inside a call of init_db_pool
InInit(t) == \E i \in 1..Len(stack[t]) : stack[t][i].fn = "init"

\* C15: init_db_pool makes at most 3 attempts; it ends, with a fatal error
\* surfaced to its caller when all 3 failed, or returning with db_pool set
\* to the new pool when an attempt succeeded.
C15_InitEnds ==
    /\ [](\A t \in PoolThreads : \A i \in 1..Len(stack[t]) :
             stack[t][i].fn = "init" => stack[t][i].att <= MaxAttempts)
    /\ \A t \in PoolThreads : InInit(t) ~> ~InInit(t)

(***************************************************************************)
(* Spec: the message and callback handlers run by the worker threads.      *)
(* Each action is one step of the thread's active frame: a cache           *)
(* operation, a platform call, or one db_cursor block: pool_lock is held   *)
(* from before the connection is acquired until after commit or rollback,  *)
(* so a block is serialised against every other storage access and is one  *)
(* step, which ends in a commit or in a failed commit and a rollback.      *)
(***************************************************************************)
poolRest == <<db_pool, dbUp, stack, calls, outages, cycles>>

otherVars == <<cacheVars, poolRest, gateVars, txVars>>

\* an update is handed to a free worker; which one is immaterial, so the
\* first idle one takes it
Free(t) ==
    /\ Top(hs[t]).fn = "idle"
    /\ \A t2 \in Threads : t2 < t => Top(hs[t2]).fn # "idle"

Active(t, fn, pc) == Top(hs[t]).fn = fn /\ Top(hs[t]).pc = pc

\* a message "/start" or "/start <tok>" from user u
StartCmd(t, u, tok) ==
    /\ Free(t)
    /\ hcalls < MaxHandlerCalls
    /\ hcalls' = hcalls + 1
    /\ hs' = [hs EXCEPT ![t] = Append(@, HFrame("sw", "pop", u, u,
                  IF HasArg(tok) THEN safe_int_convert(tok) ELSE 0))]
    /\ UNCHANGED <<db, membership_cache, referral_cache, member,
                   SHARES_REQUIRED, fails, changes, hist, pool_lock>>
    /\ UNCHANGED <<cooldowns, first_time_users>>
    /\ UNCHANGED otherVars

\* user u presses "Verify Membership" (cm) or "Verify Shares" (vs)
Callback(t, u, fn) ==
    /\ Free(t)
    /\ hcalls < MaxHandlerCalls
    /\ hcalls' = hcalls + 1
    /\ hs' = [hs EXCEPT ![t] = Append(@, HFrame(fn, "pop", u, u, 0))]
    /\ UNCHANGED <<db, membership_cache, referral_cache, member,
                   SHARES_REQUIRED, fails, changes, hist, pool_lock>>
    /\ UNCHANGED <<cooldowns, first_time_users>>
    /\ UNCHANGED otherVars

\* where each function goes once both caches are popped
AfterPops(stk) ==
    LET f == Top(stk) IN
    CASE f.fn = "sw" /\ RefValid(f.ref, f.u) -> SetTop(stk, [f EXCEPT !.pc = "w_ref"])
      [] f.fn = "sw" /\ ~RefValid(f.ref, f.u) -> CallFrom(stk, "w_branch", GusFrame(f.u))
      [] f.fn = "cm" -> CallFrom(stk, "c_tx", GusFrame(f.u))
      [] f.fn = "vs" -> CallFrom(stk, "v_branch", GusFrame(f.u))
      [] f.fn = "sue" -> CallFrom(stk, "s_tx", GusFrame(f.u))

\* membership_cache.pop(user_id, None); referral_cache.pop(user_id, None)
PopCaches(t) ==
    /\ Top(hs[t]).pc = "pop"
    /\ membership_cache' = Pop(membership_cache, Top(hs[t]).u, now, MEMBERSHIP_TTL).c
    /\ referral_cache' = Pop(referral_cache, Top(hs[t]).u, now, REFERRAL_TTL).c
    /\ hs' = [hs EXCEPT ![t] = AfterPops(@)]
    /\ UNCHANGED <<db, member, SHARES_REQUIRED, hcalls,
                   fails, changes, hist, pool_lock>>
    /\ UNCHANGED <<cooldowns, first_time_users>>
    /\ UNCHANGED otherVars

\* get_user_status: status = {'is_member': membership_cache.get(user_id),
\* 'referral_count': referral_cache.get(user_id), 'is_admin': False}
GusRead(t) ==
    /\ Active(t, "gus", "g_get")
    /\ LET gm == Get(membership_cache, Top(hs[t]).u, now, MEMBERSHIP_TTL)
           gr == Get(referral_cache, Top(hs[t]).u, now, REFERRAL_TTL)
       IN /\ membership_cache' = gm.c
          /\ referral_cache' = gr.c
          /\ hs' = [hs EXCEPT ![t] =
                       SetTop(@, [Top(@) EXCEPT !.m = gm.r, !.rc = gr.r, !.pc = "g_adm"])]
    /\ UNCHANGED <<db, member, SHARES_REQUIRED, hcalls,
                   fails, changes, hist, pool_lock>>
    /\ UNCHANGED <<cooldowns, first_time_users>>
    /\ UNCHANGED otherVars

\* get_user_status: the admins query, a whole db_cursor block
GusAdmin(t) ==
    /\ Active(t, "gus", "g_adm")
    /\ pool_lock = 0
    /\ LET f == [Top(hs[t]) EXCEPT !.adm = IsAdmin(db, Top(hs[t]).u)] IN
          hs' = [hs EXCEPT ![t] =
                    IF f.m = None THEN SetTop(@, [f EXCEPT !.pc = "g_plat"])
                    ELSE AfterMembership(@, f)]
    /\ UNCHANGED <<db, membership_cache, referral_cache, member,
                   SHARES_REQUIRED, hcalls, fails, changes, hist, pool_lock>>
    /\ UNCHANGED <<cooldowns, first_time_users>>
    /\ UNCHANGED otherVars

\* get_user_status: bot.get_chat_member; a failure resolves is_member False
GusPlatform(t) ==
    /\ Active(t, "gus", "g_plat")
    /\ \E ok \in BOOLEAN :
          /\ ok \/ MayFail
          /\ fails' = IF ok THEN fails ELSE fails + 1
          /\ LET f == Top(hs[t]) IN
                hs' = [hs EXCEPT ![t] =
                          IF ok
                          THEN SetTop(@, [f EXCEPT !.pc = "g_mset",
                                      !.m = IF member[f.u] THEN PyTrue ELSE PyFalse])
                          ELSE AfterMembership(@, OnCheckFailed(f))]
    /\ UNCHANGED <<db, membership_cache, referral_cache, member,
                   SHARES_REQUIRED, hcalls, changes, hist, pool_lock>>
    /\ UNCHANGED <<cooldowns, first_time_users>>
    /\ UNCHANGED otherVars

\* get_user_status: membership_cache[user_id] = status['is_member']
GusCacheMembership(t) ==
    /\ Active(t, "gus", "g_mset")
    /\ LET f == Top(hs[t]) IN
          /\ membership_cache' = SetItem(membership_cache, f.u, f.m, now,
                                         MEMBERSHIP_TTL, CACHE_MAX_SIZE)
          /\ hs' = [hs EXCEPT ![t] = AfterMembership(@, f)]
    /\ UNCHANGED <<db, referral_cache, member, SHARES_REQUIRED, hcalls,
                   fails, changes, hist, pool_lock>>
    /\ UNCHANGED <<cooldowns, first_time_users>>
    /\ UNCHANGED otherVars

\* get_user_status: the COUNT(*) query and the cache store, one db_cursor
\* block; when its commit fails the count resolves to 0
GusCount(t) ==
    /\ Active(t, "gus", "g_cnt")
    /\ pool_lock = 0
    /\ LET f == Top(hs[t])
           n == CountReferrals(db, f.u)
       IN /\ referral_cache' = SetItem(referral_cache, f.u, n, now,
                                       REFERRAL_TTL, CACHE_MAX_SIZE)
          /\ \E ok \in BOOLEAN :
                /\ ok \/ MayFail
                /\ fails' = IF ok THEN fails ELSE fails + 1
                /\ hs' = [hs EXCEPT ![t] =
                             ReturnStatus(SetTop(@, [f EXCEPT !.rc = IF ok THEN n ELSE 0,
                                                              !.cfail = ~ok]))]
    /\ UNCHANGED <<db, membership_cache, member, SHARES_REQUIRED, hcalls,
                   changes, hist, pool_lock>>
    /\ UNCHANGED <<cooldowns, first_time_users>>
    /\ UNCHANGED otherVars

\* send_welcome: the pending_referrals upsert, one db_cursor block; a failed
\* commit rolls it back and is logged; get_user_status is next
SwStorePending(t) ==
    /\ Active(t, "sw", "w_ref")
    /\ pool_lock = 0
    /\ LET f == Top(hs[t]) IN
       \E ok \in BOOLEAN :
          /\ ok \/ MayFail
          /\ fails' = IF ok THEN fails ELSE fails + 1
          /\ db' = IF ok THEN UpsertPending(db, f.ref, f.u) ELSE db
          /\ hist' = IF ok
                     THEN [hist EXCEPT !.prevRef[f.u] = hist.lastRef[f.u],
                                       !.lastRef[f.u] = f.ref,
                                       !.confirms[f.u] = 0,
                                       !.attempts[f.u] = 0]
                     ELSE hist
          /\ hs' = [hs EXCEPT ![t] = CallFrom(@, "w_branch", GusFrame(f.u))]
    /\ UNCHANGED <<membership_cache, referral_cache, member, SHARES_REQUIRED,
                   hcalls, changes, pool_lock>>
    /\ UNCHANGED <<cooldowns, first_time_users>>
    /\ UNCHANGED otherVars

\* send_welcome: the access level; the menu needs get_main_markup, which
\* resolves the status again; the two prompts are sent and the handler ends
SwBranch(t) ==
    /\ Active(t, "sw", "w_branch")
    /\ LET f == Top(hs[t]) IN
          hs' = [hs EXCEPT ![t] =
                    IF GateWelcome(f.m, f.rc, SHARES_REQUIRED)
                    THEN CallFrom(@, "w_send", GusFrame(f.u))
                    ELSE Return(@)]
    /\ UNCHANGED <<db, membership_cache, referral_cache, member,
                   SHARES_REQUIRED, hcalls, fails, changes, hist, pool_lock>>
    /\ UNCHANGED <<cooldowns, first_time_users>>
    /\ UNCHANGED otherVars

\* send_welcome: bot.send_message of the menu, then
\* save_user_if_eligible(message.from_user)
SwSend(t) ==
    /\ Active(t, "sw", "w_send")
    /\ LET f == Top(hs[t]) IN
          hs' = [hs EXCEPT ![t] =
                    CallFrom(@, "ret", HFrame("sue", "pop", f.from, f.from, 0))]
    /\ UNCHANGED <<db, membership_cache, referral_cache, member,
                   SHARES_REQUIRED, hcalls, fails, changes, hist, pool_lock>>
    /\ UNCHANGED <<cooldowns, first_time_users>>
    /\ UNCHANGED otherVars

\* a verification that takes every status
CmVerifiedAny(m) == TRUE

\* check_membership: if user_status['is_member']
CmVerified(m) == m = PyTrue

\* check_membership: for a verified user the DELETE ... RETURNING and the
\* INSERT INTO referrals with the two cache pops, one db_cursor block, then
\* the status again; a failed commit rolls back and ends the handler; a user
\* who is not verified is answered
CmTx(t) ==
    /\ Active(t, "cm", "c_tx")
    /\ LET f == Top(hs[t])
           r == Returning(db, f.u)
           d == DeletePending(db, f.u)
       IN IF CmVerified(f.m)
          THEN /\ pool_lock = 0
               /\ referral_cache' =
                     IF r # 0 THEN Pop(referral_cache, r, now, REFERRAL_TTL).c
                     ELSE referral_cache
               /\ membership_cache' =
                     IF r # 0 THEN Pop(membership_cache, f.u, now, MEMBERSHIP_TTL).c
                     ELSE membership_cache
               /\ \E ok \in BOOLEAN :
                     /\ ok \/ MayFail
                     /\ fails' = IF ok THEN fails ELSE fails + 1
                     /\ db' = IF ~ok THEN db
                              ELSE IF r # 0 THEN InsertReferral(d, r, f.u) ELSE d
                     /\ hist' = IF ok
                                THEN [hist EXCEPT !.attempts[f.u] = @ + 1,
                                                  !.confirms[f.u] =
                                                      IF r # 0 THEN @ + 1 ELSE @]
                                ELSE hist
                     /\ hs' = [hs EXCEPT ![t] =
                                  IF ok THEN CallFrom(@, "c_ans", GusFrame(f.u))
                                  ELSE Return(@)]
          ELSE /\ hs' = [hs EXCEPT ![t] = Return(@)]
               /\ UNCHANGED <<db, referral_cache, membership_cache, fails, hist>>
    /\ UNCHANGED <<member, SHARES_REQUIRED, hcalls, changes, pool_lock>>
    /\ UNCHANGED <<cooldowns, first_time_users>>
    /\ UNCHANGED otherVars

\* check_membership, verify_shares: bot.answer_callback_query, then
\* send_welcome(call.message), a message the bot sent whose second word is
\* not a number
AnswerAndWelcome(t) ==
    /\ Top(hs[t]).pc \in {"c_ans", "v_ans"}
    /\ LET f == Top(hs[t]) IN
          hs' = [hs EXCEPT ![t] =
                    CallFrom(@, "ret", HFrame("sw", "pop", f.u, Bot,
                                              safe_int_convert("abc")))]
    /\ UNCHANGED <<db, membership_cache, referral_cache, member,
                   SHARES_REQUIRED, hcalls, fails, changes, hist, pool_lock>>
    /\ UNCHANGED <<cooldowns, first_time_users>>
    /\ UNCHANGED otherVars

\* verify_shares: a non-member and a user short of referrals are answered;
\* otherwise save_user_if_eligible(call.from_user)
VsBranch(t) ==
    /\ Active(t, "vs", "v_branch")
    /\ LET f == Top(hs[t]) IN
          hs' = [hs EXCEPT ![t] =
                    IF GateVerify(f.m, f.rc, SHARES_REQUIRED)
                    THEN CallFrom(@, "v_ans", HFrame("sue", "pop", f.from, f.from, 0))
                    ELSE Return(@)]
    /\ UNCHANGED <<db, membership_cache, referral_cache, member,
                   SHARES_REQUIRED, hcalls, fails, changes, hist, pool_lock>>
    /\ UNCHANGED <<cooldowns, first_time_users>>
    /\ UNCHANGED otherVars

\* referral_cache.pop(row[0], None) for every referrer in S
RECURSIVE PopAll(_, _, _)
PopAll(c, S, t) ==
    IF S = {} THEN c
    ELSE LET x == CHOOSE y \in S : TRUE
         IN PopAll(Pop(c, x, t, REFERRAL_TTL).c, S \ {x}, t)

\* SELECT referrer_id FROM referrals WHERE referred_id = %s
ReferrersOf(tb, user_id) ==
    IF user_id \in Users
    THEN {a \in RefIds : tb.referrals[<<a, user_id>>] > 0}
    ELSE {}

\* save_user_if_eligible: the users lookup and insert, one db_cursor block
SueTx(t) ==
    /\ Active(t, "sue", "s_tx")
    /\ pool_lock = 0
    /\ LET f == Top(hs[t])
           ins == db.users[f.u] = 0 /\ GateWelcome(f.m, f.rc, SHARES_REQUIRED)
       IN /\ referral_cache' =
                IF ins THEN PopAll(referral_cache, ReferrersOf(db, f.u), now)
                ELSE referral_cache
          /\ \E ok \in BOOLEAN :
                /\ ok \/ MayFail
                /\ fails' = IF ok THEN fails ELSE fails + 1
                /\ db' = IF ok /\ ins THEN [db EXCEPT !.users[f.u] = @ + 1] ELSE db
          /\ hs' = [hs EXCEPT ![t] = Return(@)]
    /\ UNCHANGED <<membership_cache, member, SHARES_REQUIRED, hcalls,
                   changes, hist, pool_lock>>
    /\ UNCHANGED <<cooldowns, first_time_users>>
    /\ UNCHANGED otherVars

\* a user joins the channel
Join(u) ==
    /\ ~member[u]
    /\ changes < MaxMemberChanges
    /\ changes' = changes + 1
    /\ member' = [member EXCEPT ![u] = TRUE]
    /\ hist' = [hist EXCEPT !.everMember[u] = TRUE]
    /\ UNCHANGED <<hs, db, membership_cache, referral_cache,
                   SHARES_REQUIRED, hcalls, fails, pool_lock>>
    /\ UNCHANGED <<cooldowns, first_time_users>>
    /\ UNCHANGED otherVars

\* a user leaves the channel
Leave(u) ==
    /\ member[u]
    /\ changes < MaxMemberChanges
    /\ changes' = changes + 1
    /\ member' = [member EXCEPT ![u] = FALSE]
    /\ UNCHANGED <<hs, db, membership_cache, referral_cache,
                   SHARES_REQUIRED, hcalls, fails, hist, pool_lock>>
    /\ UNCHANGED <<cooldowns, first_time_users>>
    /\ UNCHANGED otherVars

\* user 1 sent /start 3 and has not verified yet
PendingTables == [NoTables EXCEPT !.pending[1] = <<3>>]

\* user 1 sent /start 3 and verified as a member
ConfirmedTables == [NoTables EXCEPT !.referrals[<<3, 1>>] = 1]

\* user 2 sent /start 1 and verified as a member
InvitedTables == [NoTables EXCEPT !.referrals[<<1, 2>>] = 1]

StartTables == {NoTables, PendingTables, ConfirmedTables, InvitedTables}

HandlerInit ==
    /\ CacheStart(1)
    /\ PoolStart /\ TxStart /\ BatchStart /\ WebhookStart
    /\ GateStart(PyFalse, 0, 1)
    /\ \E tb \in StartTables, m1 \in BOOLEAN :
          HandlerStart(tb, [u \in Users |-> IF u = 1 THEN m1 ELSE RowsReferred(tb, u) > 0], 1)

Next ==
    \/ \E t \in Threads, u \in Actors, tok \in Tokens : StartCmd(t, u, tok)
    \/ \E t \in Threads, u \in Actors : Callback(t, u, "cm")
    \/ \E t \in Threads : PopCaches(t)
    \/ \E t \in Threads : GusRead(t)
    \/ \E t \in Threads : GusAdmin(t)
    \/ \E t \in Threads : GusPlatform(t)
    \/ \E t \in Threads : GusCacheMembership(t)
    \/ \E t \in Threads : GusCount(t)
    \/ \E t \in Threads : SwStorePending(t)
    \/ \E t \in Threads : SwBranch(t)
    \/ \E t \in Threads : SwSend(t)
    \/ \E t \in Threads : CmTx(t)
    \/ \E t \in Threads : AnswerAndWelcome(t)
    \/ \E t \in Threads : SueTx(t)
    \/ \E u \in Actors : Join(u)
    \/ \E u \in Actors : Leave(u)

Spec == HandlerInit /\ [][Next]_vars

(***************************************************************************)
(* Claims about get_user_status, under Spec.                               *)
(***************************************************************************)
\* the step of thread t in which bot.get_chat_member fails on every attempt
CheckFails(t) ==
    Active(t, "gus", "g_plat") /\ fails' = fails + 1 /\ hs'[t] # hs[t]

\* C19: when the membership check fails during get_user_status, the call
\* does not raise, reports is_member = False and writes no entry into the
\* membership cache, so that the next get_user_status for the user queries
\* the platform again.
C19_FailedCheckNotCached ==
    /\ [](\A t \in Threads : \A i \in 1..Len(hs[t]) :
             hs[t][i].mfail => hs[t][i].m = PyFalse)
    /\ [](\A t \in Threads :
             (hcalls = 1 /\ Top(hs[t]).fn = "gus" /\ Top(hs[t]).mfail)
                => ~HasKey(membership_cache, Top(hs[t]).u))
    /\ [][\A t \in Threads :
             CheckFails(t) =>
                /\ membership_cache' = membership_cache
                /\ Len(hs'[t]) >= Len(hs[t]) - 1]_vars

\* the check of a member failed: get_user_status goes on to the referral
\* count with is_member = False and nothing cached for the user
C19_Witness ==
    \E t \in Threads :
       /\ Active(t, "gus", "g_cnt")
       /\ Top(hs[t]).mfail
       /\ Top(hs[t]).m = PyFalse
       /\ member[Top(hs[t]).u]
       /\ ~HasKey(membership_cache, Top(hs[t]).u)

(***************************************************************************)
(* SpecGate: the gated callbacks get_prediction (hp), request_live (rl)    *)
(* and verify_shares (vs), with the same get_user_status steps, under      *)
(* each quota setting.                                                     *)
(***************************************************************************)
\* user u presses "Generate Prediction" (hp) or "Request Live Prediction"
\* (rl): the handler starts with get_user_status(user_id)
GatedCallback(t, u, fn) ==
    /\ Free(t)
    /\ hcalls < MaxHandlerCalls
    /\ hcalls' = hcalls + 1
    /\ hs' = [hs EXCEPT ![t] = Append(Append(@, HFrame(fn, "h_gate", u, u, 0)),
                                      GusFrame(u))]
    /\ UNCHANGED <<db, membership_cache, referral_cache, member,
                   SHARES_REQUIRED, fails, changes, hist, pool_lock>>
    /\ UNCHANGED <<cooldowns, first_time_users>>
    /\ UNCHANGED otherVars

\* cooldowns[user_id] - time.time() > 0, for a user in cooldowns
CoolingDown(cd, u, t) == cd[u] # None /\ cd[u] - t > 0

\* handle_prediction: the two access tests, then the cooldown test under
\* cooldown_lock; each denial is answered and ends the handler
HpGate(t) ==
    /\ Active(t, "hp", "h_gate")
    /\ LET f == Top(hs[t]) IN
          hs' = [hs EXCEPT ![t] =
                    IF GatePrediction(f.m, f.rc, SHARES_REQUIRED)
                       /\ ~CoolingDown(cooldowns, f.u, now)
                    THEN SetTop(@, [f EXCEPT !.pc = "h_sticker"])
                    ELSE Return(@)]
    /\ UNCHANGED <<db, membership_cache, referral_cache, member,
                   SHARES_REQUIRED, hcalls, fails, changes, hist, pool_lock>>
    /\ UNCHANGED <<cooldowns, first_time_users>>
    /\ UNCHANGED otherVars

\* handle_prediction: the keyboard is removed, a first-time user is sent the
\* sticker and remembered unless that send fails; get_main_markup is next
HpSticker(t) ==
    /\ Active(t, "hp", "h_sticker")
    /\ LET f == Top(hs[t]) IN
       \E ok \in BOOLEAN :
          /\ ok \/ MayFail
          /\ fails' = IF ok THEN fails ELSE fails + 1
          /\ first_time_users' = IF ok THEN first_time_users \cup {f.u}
                                 ELSE first_time_users
          /\ hs' = [hs EXCEPT ![t] = CallFrom(@, "h_send", GusFrame(f.u))]
    /\ UNCHANGED <<db, membership_cache, referral_cache, member,
                   SHARES_REQUIRED, hcalls, changes, hist, pool_lock>>
    /\ UNCHANGED cooldowns
    /\ UNCHANGED otherVars

\* a handle_prediction that goes on to the cooldown after a failed send
HpSendAnyway(t) ==
    /\ Active(t, "hp", "h_send")
    /\ LET f == Top(hs[t]) IN
       \E ok \in BOOLEAN :
          /\ ok \/ MayFail
          /\ fails' = IF ok THEN fails ELSE fails + 1
          /\ hist' = IF ok THEN [hist EXCEPT !.sent[f.u] = @ + 1] ELSE hist
          /\ hs' = [hs EXCEPT ![t] = SetTop(@, [f EXCEPT !.pc = "h_cd"])]
    /\ UNCHANGED <<db, membership_cache, referral_cache, member,
                   SHARES_REQUIRED, hcalls, changes, pool_lock>>
    /\ UNCHANGED <<cooldowns, first_time_users>>
    /\ UNCHANGED otherVars

\* handle_prediction: the prediction message is sent; a failed send ends the
\* handler
HpSend(t) ==
    /\ Active(t, "hp", "h_send")
    /\ LET f == Top(hs[t]) IN
       \E ok \in BOOLEAN :
          /\ ok \/ MayFail
          /\ fails' = IF ok THEN fails ELSE fails + 1
          /\ hist' = IF ok THEN [hist EXCEPT !.sent[f.u] = @ + 1] ELSE hist
          /\ hs' = [hs EXCEPT ![t] =
                       IF ok THEN SetTop(@, [f EXCEPT !.pc = "h_cd"]) ELSE Return(@)]
    /\ UNCHANGED <<db, membership_cache, referral_cache, member,
                   SHARES_REQUIRED, hcalls, changes, pool_lock>>
    /\ UNCHANGED <<cooldowns, first_time_users>>
    /\ UNCHANGED otherVars

\* handle_prediction: cooldowns[user_id] = time.time() + COOLDOWN_SECONDS,
\* under cooldown_lock, and the callback is answered
HpCooldown(t) ==
    /\ Active(t, "hp", "h_cd")
    /\ cooldowns' = [cooldowns EXCEPT ![Top(hs[t]).u] = now + COOLDOWN_SECONDS]
    /\ hs' = [hs EXCEPT ![t] = Return(@)]
    /\ UNCHANGED <<db, membership_cache, referral_cache, member,
                   SHARES_REQUIRED, hcalls, fails, changes, hist, pool_lock>>
    /\ UNCHANGED first_time_users
    /\ UNCHANGED otherVars

\* request_live_prediction: the two access tests; a denial is answered
RlGate(t) ==
    /\ Active(t, "rl", "h_gate")
    /\ LET f == Top(hs[t]) IN
          hs' = [hs EXCEPT ![t] =
                    IF GatePrediction(f.m, f.rc, SHARES_REQUIRED)
                    THEN SetTop(@, [f EXCEPT !.pc = "r_save"])
                    ELSE Return(@)]
    /\ UNCHANGED <<db, membership_cache, referral_cache, member,
                   SHARES_REQUIRED, hcalls, fails, changes, hist, pool_lock>>
    /\ UNCHANGED <<cooldowns, first_time_users>>
    /\ UNCHANGED otherVars

\* INSERT INTO live_requests (user_id) ... ON CONFLICT (user_id) DO NOTHING
InsertLive(tb, user_id) ==
    IF tb.live[user_id] > 0 THEN tb ELSE [tb EXCEPT !.live[user_id] = 1]

\* request_live_prediction: save_live_request, one db_cursor block; the
\* answer, the count and the admins' notification change nothing
RlSave(t) ==
    /\ Active(t, "rl", "r_save")
    /\ pool_lock = 0
    /\ LET f == Top(hs[t]) IN
       \E ok \in BOOLEAN :
          /\ ok \/ MayFail
          /\ fails' = IF ok THEN fails ELSE fails + 1
          /\ db' = IF ok THEN InsertLive(db, f.u) ELSE db
    /\ hs' = [hs EXCEPT ![t] = Return(@)]
    /\ UNCHANGED <<membership_cache, referral_cache, member, SHARES_REQUIRED,
                   hcalls, changes, hist, pool_lock>>
    /\ UNCHANGED <<cooldowns, first_time_users>>
    /\ UNCHANGED otherVars

\* the quota settings tried
Quotas == {0, 1}

GateInit ==
    /\ CacheStart(1)
    /\ PoolStart /\ TxStart /\ BatchStart /\ WebhookStart
    /\ GateStart(PyFalse, 0, 1)
    /\ \E tb \in {NoTables, InvitedTables}, m1 \in BOOLEAN, sr \in Quotas :
          HandlerStart(tb, [u \in Users |-> IF u = 1 THEN m1 ELSE RowsReferred(tb, u) > 0], sr)

GateNext ==
    \/ \E t \in Threads, u \in Actors, fn \in {"hp", "rl"} : GatedCallback(t, u, fn)
    \/ \E t \in Threads, u \in Actors : Callback(t, u, "vs")
    \/ \E t \in Threads : PopCaches(t)
    \/ \E t \in Threads : GusRead(t)
    \/ \E t \in Threads : GusAdmin(t)
    \/ \E t \in Threads : GusPlatform(t)
    \/ \E t \in Threads : GusCacheMembership(t)
    \/ \E t \in Threads : GusCount(t)
    \/ \E t \in Threads : HpGate(t)
    \/ \E t \in Threads : HpSticker(t)
    \/ \E t \in Threads : HpSend(t)
    \/ \E t \in Threads : HpCooldown(t)
    \/ \E t \in Threads : RlGate(t)
    \/ \E t \in Threads : RlSave(t)
    \/ \E t \in Threads : VsBranch(t)
    \/ \E t \in Threads : AnswerAndWelcome(t)
    \/ \E t \in Threads : SwBranch(t)
    \/ \E t \in Threads : SwSend(t)
    \/ \E t \in Threads : SueTx(t)
    \/ \E u \in Actors : Join(u)
    \/ \E u \in Actors : Leave(u)

SpecGate == GateInit /\ [][GateNext]_vars

(***************************************************************************)
(* Claims about the referral state machine, checked under Spec.            *)
(* hist.lastRef[b] is the referrer of the latest committed pending write   *)
(* for b, hist.prevRef[b] the one it replaced; hist.attempts[b] and        *)
(* hist.confirms[b] count, since that write, the committed confirmation    *)
(* transactions for b and those among them whose DELETE returned a row.    *)
(***************************************************************************)
InHandler(t, fn) == Len(hs[t]) >= 2 /\ hs[t][2].fn = fn

\* C2: with a pending referral (a, b), however many check_membership calls
\* for b run and however they interleave, exactly one of them gets a referrer
\* from the DELETE, the pending row is gone, and the referrals table holds
\* exactly one row (a, b).
C2_OneConfirmation ==
    \A b \in Users :
       /\ hist.confirms[b] <= 1
       /\ (hist.attempts[b] >= 1 /\ hist.lastRef[b] # 0) =>
             /\ hist.confirms[b] = 1
             /\ db.pending[b] = <<>>
             /\ db.referrals[<<hist.lastRef[b], b>>] = 1

\* two check_membership calls for b, both still running, have both committed
\* their confirmation transaction
C2_Witness ==
    \E b \in Users :
       /\ \A t \in Threads : InHandler(t, "cm") /\ hs[t][2].u = b
       /\ hist.attempts[b] = 2
       /\ hist.confirms[b] = 1
       /\ db.referrals[<<hist.lastRef[b], b>>] = 1

\* C3: in every reachable state every user U has at most one referrals row
\* with referred_id = U.
C3_OneInviter == \A b \in Users : RowsReferred(db, b) <= 1

\* C4: a referrals row for a referred user is inserted only at a moment when
\* that user is a member of the channel.
C4_MemberAtInsert ==
    [][\A b \in Users : RowsReferred(db', b) > RowsReferred(db, b) => member[b]]_vars

\* C5: no pending_referrals row and no referrals row has referrer_id equal to
\* referred_id, and a /start whose referrer is the sender or parses to 0 never
\* gets to the pending_referrals write.
C5_NoSelfReferral ==
    /\ \A b \in Users : \A i \in 1..Len(db.pending[b]) : db.pending[b][i] # b
    /\ \A b \in Users : b \in RefIds => db.referrals[<<b, b>>] = 0
    /\ \A t \in Threads :
          Top(hs[t]).pc = "w_ref" => Top(hs[t]).ref \notin {0, Top(hs[t]).u}

\* a /start of user u naming u has gone past the referral block, and nothing
\* is pending for u
C5_Witness ==
    \E t \in Threads :
       /\ InHandler(t, "sw")
       /\ hs[t][2].ref = hs[t][2].u
       /\ hs[t][2].pc = "w_branch"
       /\ db.pending[hs[t][2].u] = <<>>

\* C6: a user has at most one pending row, and it names the referrer of the
\* user's latest /start that stored one; the row a verification inserts
\* credits that referrer, and consumes the pending row.
C6_LastReferrerWins ==
    /\ [](\A b \in Users :
            /\ Len(db.pending[b]) <= 1
            /\ db.pending[b] # <<>> => db.pending[b] = <<hist.lastRef[b]>>)
    /\ [][\A b \in Users : \A a \in RefIds :
            db'.referrals[<<a, b>>] > db.referrals[<<a, b>>] =>
               a = hist.lastRef[b] /\ db'.pending[b] = <<>>]_vars

\* b named X, then Y, then verified: Y is credited and X is not
C6_Witness ==
    \E b \in Users :
       /\ hist.prevRef[b] \notin {0, hist.lastRef[b]}
       /\ hist.confirms[b] = 1
       /\ db.referrals[<<hist.lastRef[b], b>>] = 1
       /\ db.referrals[<<hist.prevRef[b], b>>] = 0

(***************************************************************************)
(* Claims about the gated callbacks, checked under SpecGate.               *)
(***************************************************************************)
\* the handler of thread t has passed its access tests
PastGate(t) ==
    \/ InHandler(t, "hp") /\ hs[t][2].pc \in {"h_sticker", "h_send", "h_cd"}
    \/ InHandler(t, "rl") /\ hs[t][2].pc = "r_save"

\* C7 as stated: a handler gets past its access tests only with a status,
\* resolved in that call, that has is_member true and the quota met, and never
\* after the membership check or the referral-count query failed in that call.
C7_DeniedOnAnyFailure ==
    \A t \in Threads :
       PastGate(t) =>
          /\ hs[t][2].m = PyTrue
          /\ SHARES_REQUIRED = 0 \/ hs[t][2].rc >= SHARES_REQUIRED
          /\ ~hs[t][2].mfail
          /\ ~hs[t][2].cfail

\* C7: a prediction is sent, and a live request stored, only by a handler
\* past its access tests, and a handler gets past them only with a status,
\* resolved in that call, that has is_member true and the quota met; never
\* after a failed membership check, and after a failed referral-count query
\* only when there is no quota.
C7_GatedOnResolvedStatus ==
    /\ [](\A t \in Threads :
            PastGate(t) =>
               /\ hs[t][2].m = PyTrue
               /\ SHARES_REQUIRED = 0 \/ hs[t][2].rc >= SHARES_REQUIRED
               /\ ~hs[t][2].mfail
               /\ hs[t][2].cfail => (hs[t][2].rc = 0 /\ SHARES_REQUIRED <= 0))
    /\ [][\A u \in Users :
            /\ hist'.sent[u] > hist.sent[u] =>
                  \E t \in Threads : /\ PastGate(t)
                                     /\ hs[t][2].fn = "hp"
                                     /\ hs[t][2].u = u
            /\ db'.live[u] > db.live[u] =>
                  \E t \in Threads : /\ PastGate(t)
                                     /\ hs[t][2].fn = "rl"
                                     /\ hs[t][2].u = u]_vars

\* a prediction has been sent by a call whose referral-count query failed
C7_Witness ==
    \E t \in Threads :
       /\ InHandler(t, "hp")
       /\ hs[t][2].pc = "h_cd"
       /\ hs[t][2].cfail
       /\ hist.sent[hs[t][2].u] = 1

(***************************************************************************)
(* SpecEligibility: every gate applied to every status and quota.          *)
(***************************************************************************)
EligibilityInit ==
    /\ CacheStart(1)
    /\ PoolStart /\ TxStart /\ BatchStart /\ WebhookStart
    /\ HandlerStart(NoTables, NobodyJoined, 1)
    /\ \E m \in {PyTrue, PyFalse}, rc \in 0..MaxCount, sr \in (-1)..MaxQuota :
          GateStart(m, rc, sr)

\* send_welcome, get_main_markup, save_user_if_eligible, the broadcast filters
EvalWelcome ==
    /\ gate.fn = "none"
    /\ gate' = [gate EXCEPT !.fn = "sw", !.res = GateWelcome(gate.m, gate.rc, gate.sr)]
    /\ UNCHANGED <<cacheVars, poolVars, handlerVars, txVars, batch, webhook>>

\* handle_prediction, request_live_prediction
EvalPrediction ==
    /\ gate.fn = "none"
    /\ gate' = [gate EXCEPT !.fn = "hp", !.res = GatePrediction(gate.m, gate.rc, gate.sr)]
    /\ UNCHANGED <<cacheVars, poolVars, handlerVars, txVars, batch, webhook>>

\* check_membership, verify_shares
EvalVerify ==
    /\ gate.fn = "none"
    /\ gate' = [gate EXCEPT !.fn = "vs", !.res = GateVerify(gate.m, gate.rc, gate.sr)]
    /\ UNCHANGED <<cacheVars, poolVars, handlerVars, txVars, batch, webhook>>

EligibilityNext ==
    \/ EvalWelcome
    \/ EvalPrediction
    \/ EvalVerify

SpecEligibility == EligibilityInit /\ [][EligibilityNext]_vars

\* C8: every gate of the code gives, for every is_member, referral count and
\* quota, the value of isMember AND (sharesRequired == 0 OR referralCount >=
\* sharesRequired).
C8_GatesAgree ==
    gate.fn # "none" =>
       (gate.res <=> (gate.m = PyTrue /\ (gate.sr = 0 \/ gate.rc >= gate.sr)))

\* the gate of handle_prediction lets a member with 2 referrals through a
\* quota of 2
C8_Witness ==
    gate.fn = "hp" /\ gate.m = PyTrue /\ gate.sr = 2 /\ gate.rc = 2 /\ gate.res

(***************************************************************************)
(* SpecAdmin: /admin commands, with the admins table changed from outside  *)
(* (the program never writes it) and an admins query that may fail.        *)
(***************************************************************************)
\* a message "/admin" from user u: admin_panel resolves the status first
AdminCmd(t, u) ==
    /\ Free(t)
    /\ hcalls < MaxHandlerCalls
    /\ hcalls' = hcalls + 1
    /\ hs' = [hs EXCEPT ![t] =
                 Append(Append(@, HFrame("ap", "a_branch", u, u, 0)), GusFrame(u))]
    /\ UNCHANGED <<db, membership_cache, referral_cache, member,
                   SHARES_REQUIRED, fails, changes, hist, pool_lock>>
    /\ UNCHANGED <<cooldowns, first_time_users>>
    /\ UNCHANGED otherVars

\* get_user_status: the admins query raises; the except clause logs the
\* error and status['is_admin'] keeps its initial False
GusAdminFails(t) ==
    /\ Active(t, "gus", "g_adm")
    /\ pool_lock = 0
    /\ MayFail
    /\ fails' = fails + 1
    /\ LET f == [Top(hs[t]) EXCEPT !.adm = FALSE] IN
          hs' = [hs EXCEPT ![t] =
                    IF f.m = None THEN SetTop(@, [f EXCEPT !.pc = "g_plat"])
                    ELSE AfterMembership(@, f)]
    /\ UNCHANGED <<db, membership_cache, referral_cache, member,
                   SHARES_REQUIRED, hcalls, changes, hist, pool_lock>>
    /\ UNCHANGED <<cooldowns, first_time_users>>
    /\ UNCHANGED otherVars

\* admin_panel: the panel for an admin, "Unauthorized access!" otherwise
AdminPanel(t) ==
    /\ Active(t, "ap", "a_branch")
    /\ hs' = [hs EXCEPT ![t] = Return(@)]
    /\ UNCHANGED <<db, membership_cache, referral_cache, member,
                   SHARES_REQUIRED, hcalls, fails, changes, hist, pool_lock>>
    /\ UNCHANGED <<cooldowns, first_time_users>>
    /\ UNCHANGED otherVars

\* a row of the admins table is inserted or deleted by the database's
\* operator; no db_cursor block is open
AdminChange(u) ==
    /\ pool_lock = 0
    /\ db' = [db EXCEPT !.admins = IF u \in @ THEN @ \ {u} ELSE @ \cup {u}]
    /\ UNCHANGED <<hs, membership_cache, referral_cache, member,
                   SHARES_REQUIRED, hcalls, fails, changes, hist, pool_lock>>
    /\ UNCHANGED <<cooldowns, first_time_users>>
    /\ UNCHANGED otherVars

AdminInit ==
    /\ CacheStart(1)
    /\ PoolStart /\ TxStart /\ BatchStart /\ WebhookStart
    /\ GateStart(PyFalse, 0, 1)
    /\ \E m1 \in BOOLEAN : HandlerStart(NoTables, [u \in Users |-> u = 1 /\ m1], 1)

AdminNext ==
    \/ \E t \in Threads, u \in Users : AdminCmd(t, u)
    \/ \E t \in Threads : GusRead(t)
    \/ \E t \in Threads : GusAdmin(t)
    \/ \E t \in Threads : GusAdminFails(t)
    \/ \E t \in Threads : GusPlatform(t)
    \/ \E t \in Threads : GusCacheMembership(t)
    \/ \E t \in Threads : GusCount(t)
    \/ \E t \in Threads : AdminPanel(t)
    \/ \E u \in Users : AdminChange(u)

SpecAdmin == AdminInit /\ [][AdminNext]_vars

\* the step of thread t that ends the admins query of get_user_status
AdminQueried(t) == Active(t, "gus", "g_adm") /\ hs'[t] # hs[t]

\* C20 as stated: every get_user_status reports as is_admin what the admins
\* table holds when the call queries it.
C20_Original ==
    [][\A t \in Threads :
          AdminQueried(t) =>
             (Top(hs'[t]).adm <=> Top(hs[t]).u \in db.admins)]_vars

\* C20 amended: every get_user_status queries the admins table and, when
\* the query succeeds, reports as is_admin what the table holds at that
\* moment, however the table was changed before; when the query fails it
\* reports is_admin = False.
C20_AdminReadFresh ==
    [][\A t \in Threads :
          AdminQueried(t) =>
             (Top(hs'[t]).adm <=> (fails' = fails /\ Top(hs[t]).u \in db.admins))]_vars

\* user 2 was made an admin after startup and admin_panel has the status
\* that says so
C20_Witness ==
    \E t \in Threads :
       /\ Active(t, "ap", "a_branch")
       /\ Top(hs[t]).u \notin AdminIds
       /\ Top(hs[t]).u \in db.admins
       /\ Top(hs[t]).adm

(***************************************************************************)
(* SpecLocks: check_membership, handle_prediction, save_referral and       *)
(* get_user_status lock by lock.  A `with lock:` is two steps, the         *)
(* acquisition and the locked operation with the release; a db_cursor      *)
(* block holds pool_lock from its acquisition to its commit or rollback,   *)
(* and the cache operations written inside the block take the cache's      *)
(* lock while pool_lock is held.                                           *)
(***************************************************************************)
\* the position of each lock acquisition: the lock, and the position of the
\* locked operation
LockAt ==
    [g_m_lock |-> "membership_cache.lock", g_r_lock |-> "referral_cache.lock",
     g_adm_lock |-> "pool_lock", g_mset_lock |-> "membership_cache.lock",
     g_cnt_lock |-> "pool_lock", g_rset_lock |-> "referral_cache.lock",
     c_mpop_lock |-> "membership_cache.lock", c_rpop_lock |-> "referral_cache.lock",
     c_tx_lock |-> "pool_lock", c_rx_lock |-> "referral_cache.lock",
     c_mx_lock |-> "membership_cache.lock", s_tx_lock |-> "pool_lock",
     s_r_lock |-> "referral_cache.lock", h_cd_lock |-> "cooldown_lock",
     h_up_lock |-> "cooldown_lock"]

AfterLock ==
    [g_m_lock |-> "g_m_get", g_r_lock |-> "g_r_get", g_adm_lock |-> "g_adm",
     g_mset_lock |-> "g_m_set", g_cnt_lock |-> "g_cnt", g_rset_lock |-> "g_r_set",
     c_mpop_lock |-> "c_m_pop", c_rpop_lock |-> "c_r_pop", c_tx_lock |-> "c_delete",
     c_rx_lock |-> "c_rx_pop", c_mx_lock |-> "c_mx_pop", s_tx_lock |-> "s_insert",
     s_r_lock |-> "s_r_pop", h_cd_lock |-> "h_cd", h_up_lock |-> "h_up"]

\* the locks thread t holds
HeldBy(t) ==
    (IF pool_lock = t THEN {"pool_lock"} ELSE {}) \cup {l \in LockNames : locks[l] = t}

\* a `with lock:` block that ends without releasing
ReleaseNever(lk, l) == lk

\* the end of a `with lock:` block
Release(lk, l) == [lk EXCEPT ![l] = 0]

\* the value stored under k, expired or not; None without entry
StoredValue(c, k) == IF HasKey(c, k) THEN c[KeyIndex(c, k)].v ELSE None

LockedGusFrame(u) == HFrame("gus", "g_m_lock", u, 0, 0)

\* get_user_status after the membership is resolved
LockedAfterMembership(stk, f) ==
    IF f.rc = None THEN SetTop(stk, [f EXCEPT !.pc = "g_cnt_lock"])
    ELSE ReturnStatus(SetTop(stk, f))

lockRest == <<cacheVars, poolRest, gateVars>>

\* a callback of user u reaches a free worker: check_membership (cm) or
\* handle_prediction (hp); or save_referral(ref, u) is called (sr)
LockedCall(t, u, fn, ref) ==
    /\ Free(t)
    /\ hcalls < MaxHandlerCalls
    /\ hcalls' = hcalls + 1
    /\ hs' = [hs EXCEPT ![t] =
                 CASE fn = "cm" -> Append(@, HFrame("cm", "c_mpop_lock", u, u, 0))
                   [] fn = "hp" -> Append(Append(@, HFrame("hp", "h_gate", u, u, 0)),
                                          LockedGusFrame(u))
                   [] fn = "sr" -> Append(@, HFrame("sr", "s_tx_lock", u, u, ref))]
    /\ snap' = [snap EXCEPT ![t] = [m |-> membership_cache, r |-> referral_cache]]
    /\ UNCHANGED <<db, membership_cache, referral_cache, member, SHARES_REQUIRED,
                   fails, changes, hist, cooldowns, first_time_users, pool_lock, locks>>
    /\ UNCHANGED lockRest

\* with lock: the thread waits until the lock is free and takes it
LockedAcquire(t) ==
    /\ Top(hs[t]).pc \in DOMAIN LockAt
    /\ LET pc == Top(hs[t]).pc
           l == LockAt[pc]
       IN /\ IF l = "pool_lock"
             THEN pool_lock = 0 /\ pool_lock' = t /\ locks' = locks
             ELSE locks[l] = 0 /\ locks' = [locks EXCEPT ![l] = t] /\ pool_lock' = pool_lock
          /\ hs' = [hs EXCEPT ![t] = SetTop(@, [Top(@) EXCEPT !.pc = AfterLock[pc]])]
    /\ UNCHANGED <<db, membership_cache, referral_cache, member, SHARES_REQUIRED,
                   hcalls, fails, changes, hist, cooldowns, first_time_users, snap>>
    /\ UNCHANGED lockRest

\* status = {'is_member': membership_cache.get(user_id), 'referral_count':
\* referral_cache.get(user_id), ...}: each get under the lock of its cache
LockedGet(t) ==
    /\ Top(hs[t]).pc \in {"g_m_get", "g_r_get"}
    /\ LET f == Top(hs[t])
           gm == Get(membership_cache, f.u, now, MEMBERSHIP_TTL)
           gr == Get(referral_cache, f.u, now, REFERRAL_TTL)
       IN IF f.pc = "g_m_get"
          THEN /\ membership_cache' = gm.c
               /\ referral_cache' = referral_cache
               /\ locks' = Release(locks, "membership_cache.lock")
               /\ hs' = [hs EXCEPT ![t] = SetTop(@, [f EXCEPT !.m = gm.r, !.pc = "g_r_lock"])]
          ELSE /\ referral_cache' = gr.c
               /\ membership_cache' = membership_cache
               /\ locks' = Release(locks, "referral_cache.lock")
               /\ hs' = [hs EXCEPT ![t] = SetTop(@, [f EXCEPT !.rc = gr.r, !.pc = "g_adm_lock"])]
    /\ UNCHANGED <<db, member, SHARES_REQUIRED, hcalls, fails, changes, hist,
                   cooldowns, first_time_users, pool_lock, snap>>
    /\ UNCHANGED lockRest

\* get_user_status: the admins query; the block ends, pool_lock is released
LockedAdmin(t) ==
    /\ Active(t, "gus", "g_adm")
    /\ pool_lock' = 0
    /\ LET f == [Top(hs[t]) EXCEPT !.adm = IsAdmin(db, Top(hs[t]).u)] IN
          hs' = [hs EXCEPT ![t] =
                    IF f.m = None THEN SetTop(@, [f EXCEPT !.pc = "g_plat"])
                    ELSE LockedAfterMembership(@, f)]
    /\ UNCHANGED <<db, membership_cache, referral_cache, member, SHARES_REQUIRED,
                   hcalls, fails, changes, hist, cooldowns, first_time_users, locks, snap>>
    /\ UNCHANGED lockRest

\* get_user_status: bot.get_chat_member, no lock held
LockedPlatform(t) ==
    /\ Active(t, "gus", "g_plat")
    /\ \E ok \in BOOLEAN :
          /\ ok \/ MayFail
          /\ fails' = IF ok THEN fails ELSE fails + 1
          /\ LET f == Top(hs[t]) IN
                hs' = [hs EXCEPT ![t] =
                          IF ok
                          THEN SetTop(@, [f EXCEPT !.pc = "g_mset_lock",
                                      !.m = IF member[f.u] THEN PyTrue ELSE PyFalse])
                          ELSE LockedAfterMembership(@, OnCheckFailed(f))]
    /\ UNCHANGED <<db, membership_cache, referral_cache, member, SHARES_REQUIRED,
                   hcalls, changes, hist, cooldowns, first_time_users, pool_lock,
                   locks, snap>>
    /\ UNCHANGED lockRest

\* membership_cache[user_id] = status['is_member'], and inside the count
\* block referral_cache[user_id] = status['referral_count']
LockedSet(t) ==
    /\ Top(hs[t]).pc \in {"g_m_set", "g_r_set"}
    /\ LET f == Top(hs[t]) IN
       IF f.pc = "g_m_set"
       THEN /\ membership_cache' = SetItem(membership_cache, f.u, f.m, now,
                                           MEMBERSHIP_TTL, CACHE_MAX_SIZE)
            /\ referral_cache' = referral_cache
            /\ locks' = Release(locks, "membership_cache.lock")
            /\ hs' = [hs EXCEPT ![t] = LockedAfterMembership(@, f)]
       ELSE /\ referral_cache' = SetItem(referral_cache, f.u, f.rc, now,
                                         REFERRAL_TTL, CACHE_MAX_SIZE)
            /\ membership_cache' = membership_cache
            /\ locks' = Release(locks, "referral_cache.lock")
            /\ hs' = [hs EXCEPT ![t] = SetTop(@, [f EXCEPT !.pc = "g_cnt_end"])]
    /\ UNCHANGED <<db, member, SHARES_REQUIRED, hcalls, fails, changes, hist,
                   cooldowns, first_time_users, pool_lock, snap>>
    /\ UNCHANGED lockRest

\* get_user_status: SELECT COUNT(*) inside the block
LockedCount(t) ==
    /\ Active(t, "gus", "g_cnt")
    /\ hs' = [hs EXCEPT ![t] = SetTop(@, [Top(@) EXCEPT
                  !.rc = CountReferrals(db, Top(hs[t]).u), !.pc = "g_rset_lock"])]
    /\ UNCHANGED <<db, membership_cache, referral_cache, member, SHARES_REQUIRED,
                   hcalls, fails, changes, hist, cooldowns, first_time_users,
                   pool_lock, locks, snap>>
    /\ UNCHANGED lockRest

\* get_user_status: the count block ends; when its commit fails the count
\* resolves to 0
LockedCountEnd(t) ==
    /\ Active(t, "gus", "g_cnt_end")
    /\ pool_lock' = 0
    /\ \E ok \in BOOLEAN :
          /\ ok \/ MayFail
          /\ fails' = IF ok THEN fails ELSE fails + 1
          /\ hs' = [hs EXCEPT ![t] =
                       ReturnStatus(SetTop(@, [Top(@) EXCEPT
                           !.rc = IF ok THEN @ ELSE 0, !.cfail = ~ok]))]
    /\ UNCHANGED <<db, membership_cache, referral_cache, member, SHARES_REQUIRED,
                   hcalls, changes, hist, cooldowns, first_time_users, locks, snap>>
    /\ UNCHANGED lockRest

\* the pops of check_membership and save_referral, each under the lock of
\* its cache: of the user's entries before get_user_status, of the
\* referrer's count and the user's membership inside the block
LockedPop(t) ==
    /\ Top(hs[t]).pc \in {"c_m_pop", "c_r_pop", "c_rx_pop", "c_mx_pop", "s_r_pop"}
    /\ LET f == Top(hs[t])
           onMembership == f.pc \in {"c_m_pop", "c_mx_pop"}
           key == IF f.pc \in {"c_rx_pop", "s_r_pop"} THEN f.ref ELSE f.u
       IN /\ membership_cache' =
                IF onMembership THEN Pop(membership_cache, key, now, MEMBERSHIP_TTL).c
                ELSE membership_cache
          /\ referral_cache' =
                IF onMembership THEN referral_cache
                ELSE Pop(referral_cache, key, now, REFERRAL_TTL).c
          /\ locks' = Release(locks, IF onMembership THEN "membership_cache.lock"
                                      ELSE "referral_cache.lock")
          /\ hs' = [hs EXCEPT ![t] =
                CASE f.pc = "c_m_pop" -> SetTop(@, [f EXCEPT !.pc = "c_rpop_lock"])
                  [] f.pc = "c_r_pop" -> CallFrom(@, "c_branch", LockedGusFrame(f.u))
                  [] f.pc = "c_rx_pop" -> SetTop(@, [f EXCEPT !.pc = "c_mx_lock"])
                  [] f.pc = "c_mx_pop" -> SetTop(@, [f EXCEPT !.pc = "commit"])
                  [] f.pc = "s_r_pop" -> SetTop(@, [f EXCEPT !.pc = "commit"])]
    /\ UNCHANGED <<db, member, SHARES_REQUIRED, hcalls, fails, changes, hist,
                   cooldowns, first_time_users, pool_lock, snap>>
    /\ UNCHANGED lockRest

\* check_membership: if user_status['is_member']
LockedBranch(t) ==
    /\ Active(t, "cm", "c_branch")
    /\ hs' = [hs EXCEPT ![t] =
                 IF CmVerified(Top(@).m) THEN SetTop(@, [Top(@) EXCEPT !.pc = "c_tx_lock"])
                 ELSE Return(@)]
    /\ UNCHANGED <<db, membership_cache, referral_cache, member, SHARES_REQUIRED,
                   hcalls, fails, changes, hist, cooldowns, first_time_users,
                   pool_lock, locks, snap>>
    /\ UNCHANGED lockRest

\* check_membership: DELETE ... RETURNING referrer_id and, with a row, the
\* INSERT INTO referrals, not committed yet; save_referral: its INSERT
LockedStatements(t) ==
    /\ Top(hs[t]).pc \in {"c_delete", "s_insert"}
    /\ LET f == Top(hs[t])
           r == Returning(db, f.u)
       IN hs' = [hs EXCEPT ![t] =
             IF f.pc = "s_insert" THEN SetTop(@, [f EXCEPT !.pc = "s_r_lock"])
             ELSE SetTop(@, [f EXCEPT !.ref = r,
                                      !.pc = IF r # 0 THEN "c_rx_lock" ELSE "commit"])]
    /\ UNCHANGED <<db, membership_cache, referral_cache, member, SHARES_REQUIRED,
                   hcalls, fails, changes, hist, cooldowns, first_time_users,
                   pool_lock, locks, snap>>
    /\ UNCHANGED lockRest

\* a commit that keeps the DELETE and loses the INSERT
CommittedDeleteOnly(tb, f) == DeletePending(tb, f.u)

\* the tables once the block of frame f is committed
Committed(tb, f) ==
    IF f.fn = "sr" THEN InsertReferral(tb, f.ref, f.u)
    ELSE IF f.ref # 0 THEN InsertReferral(DeletePending(tb, f.u), f.ref, f.u)
    ELSE DeletePending(tb, f.u)

\* db_cursor: conn.commit(), or the commit fails and the block is rolled
\* back; pool_lock is released.  After a commit check_membership resolves
\* the status again and save_referral returns; after a failure the handler
\* is in its except clause.
LockedCommit(t) ==
    /\ Top(hs[t]).pc = "commit"
    /\ pool_lock' = 0
    /\ LET f == Top(hs[t]) IN
       \E ok \in BOOLEAN :
          /\ ok \/ MayFail
          /\ fails' = IF ok THEN fails ELSE fails + 1
          /\ db' = IF ok THEN Committed(db, f) ELSE db
          /\ hs' = [hs EXCEPT ![t] =
                       IF ~ok THEN SetTop(@, [f EXCEPT !.pc = "failed"])
                       ELSE IF f.fn = "cm" THEN CallFrom(@, "done", LockedGusFrame(f.u))
                       ELSE SetTop(@, [f EXCEPT !.pc = "done"])]
    /\ UNCHANGED <<membership_cache, referral_cache, member, SHARES_REQUIRED,
                   hcalls, changes, hist, cooldowns, first_time_users, locks, snap>>
    /\ UNCHANGED lockRest

\* handle_prediction: the two early returns
LockedGate(t) ==
    /\ Active(t, "hp", "h_gate")
    /\ hs' = [hs EXCEPT ![t] =
                 IF GatePrediction(Top(@).m, Top(@).rc, SHARES_REQUIRED)
                 THEN SetTop(@, [Top(@) EXCEPT !.pc = "h_cd_lock"])
                 ELSE Return(@)]
    /\ UNCHANGED <<db, membership_cache, referral_cache, member, SHARES_REQUIRED,
                   hcalls, fails, changes, hist, cooldowns, first_time_users,
                   pool_lock, locks, snap>>
    /\ UNCHANGED lockRest

\* handle_prediction under cooldown_lock: the cooldown test, and after the
\* prediction is sent cooldowns[user_id] = time.time() + COOLDOWN_SECONDS
LockedCooldown(t) ==
    /\ Top(hs[t]).pc \in {"h_cd", "h_up"}
    /\ locks' = Release(locks, "cooldown_lock")
    /\ LET f == Top(hs[t])
           cooling == cooldowns[f.u] # None /\ cooldowns[f.u] - now > 0
       IN IF f.pc = "h_cd"
          THEN /\ hs' = [hs EXCEPT ![t] =
                            IF cooling THEN Return(@)
                            ELSE SetTop(@, [f EXCEPT !.pc = "h_up_lock"])]
               /\ cooldowns' = cooldowns
          ELSE /\ hs' = [hs EXCEPT ![t] = SetTop(@, [f EXCEPT !.pc = "done"])]
               /\ cooldowns' = [cooldowns EXCEPT ![f.u] = now + COOLDOWN_SECONDS]
    /\ UNCHANGED <<db, membership_cache, referral_cache, member, SHARES_REQUIRED,
                   hcalls, fails, changes, hist, first_time_users, pool_lock, snap>>
    /\ UNCHANGED lockRest

\* the handler returns, or its except clause has logged the failure
LockedEnd(t) ==
    /\ Top(hs[t]).pc \in {"done", "failed"}
    /\ hs' = [hs EXCEPT ![t] = Return(@)]
    /\ UNCHANGED <<db, membership_cache, referral_cache, member, SHARES_REQUIRED,
                   hcalls, fails, changes, hist, cooldowns, first_time_users,
                   pool_lock, locks, snap>>
    /\ UNCHANGED lockRest

LocksInit ==
    /\ CacheStart(1)
    /\ PoolStart /\ TxStart /\ BatchStart /\ WebhookStart
    /\ GateStart(PyFalse, 0, 1)
    /\ \E tb \in {NoTables, PendingTables}, m1 \in BOOLEAN, sr \in Quotas :
          HandlerStart(tb, [u \in Users |-> u = 1 /\ m1], sr)

LocksNext ==
    \/ \E t \in Threads, u \in Actors, fn \in {"cm", "hp"} : LockedCall(t, u, fn, 0)
    \/ \E t \in Threads, u \in Actors : LockedCall(t, u, "sr", 2)
    \/ \E t \in Threads : LockedAcquire(t)
    \/ \E t \in Threads : LockedGet(t)
    \/ \E t \in Threads : LockedAdmin(t)
    \/ \E t \in Threads : LockedPlatform(t)
    \/ \E t \in Threads : LockedSet(t)
    \/ \E t \in Threads : LockedCount(t)
    \/ \E t \in Threads : LockedCountEnd(t)
    \/ \E t \in Threads : LockedPop(t)
    \/ \E t \in Threads : LockedBranch(t)
    \/ \E t \in Threads : LockedStatements(t)
    \/ \E t \in Threads : LockedCommit(t)
    \/ \E t \in Threads : LockedGate(t)
    \/ \E t \in Threads : LockedCooldown(t)
    \/ \E t \in Threads : LockedEnd(t)
    \/ \E u \in Actors : Join(u)

SpecLocks == LocksInit /\ [][LocksNext]_vars

(***************************************************************************)
(* Claims about locks, caches and write transactions, under SpecLocks.     *)
(***************************************************************************)
\* C16: no thread holds two of pool_lock, the membership cache lock, the
\* referral cache lock and cooldown_lock at the same time.
C16_OneLockAtATime == \A t \in Threads : Cardinality(HeldBy(t)) <= 1

\* the users a write transaction of frame f affects
Affected(f) == {f.u, f.ref} \ {0}

\* C17: when the write transaction of check_membership or save_referral
\* has failed, the membership and referral-count cache entries of the
\* affected users are as they were when the handler started; stated for a
\* handler that runs alone, so that no other handler touched the caches.
C17_CachesUntouchedOnFailure ==
    \A t \in Threads :
       (hcalls = 1 /\ Top(hs[t]).pc = "failed") =>
          \A k \in Affected(Top(hs[t])) :
             /\ StoredValue(membership_cache, k) = StoredValue(snap[t].m, k)
             /\ StoredValue(referral_cache, k) = StoredValue(snap[t].r, k)

\* C18: when the transaction of check_membership that confirms a pending
\* referral (a, b) commits, the referral-count cache holds no entry for a
\* and the membership cache holds no entry for b.
C18_InvalidatedAtCommit ==
    [][\A t \in Threads :
          (/\ Top(hs[t]).fn = "cm"
           /\ Top(hs[t]).pc = "commit"
           /\ Top(hs[t]).ref # 0
           /\ db' # db)
          => (/\ ~HasKey(referral_cache', Top(hs[t]).ref)
              /\ ~HasKey(membership_cache', Top(hs[t]).u))]_vars


(***************************************************************************)
(* SpecAdminActions: the admin callbacks and the broadcast of a text.      *)
(* send_prediction_menu and back_to_admin edit the menu, ask_for_text      *)
(* registers process_text_message as the next step; the handlers for an    *)
(* image, a voice message and a sticker are copies of those for a text.    *)
(* hist.denied[u] counts the "Unauthorized access!" answers shown to u,    *)
(* hist.broadcast[u] the broadcast messages delivered to u.                *)
(***************************************************************************)
AdminData == {"send_prediction", "send_text", "check_requests", "clear_requests"}

\* the frame of process_text_message: todo is the part of verified_users
\* not yet filtered, elig is eligible_users
ProcessFrame(u) ==
    [fn |-> "ptm", pc |-> "p_branch", u |-> u, from |-> u, ref |-> 0,
     m |-> None, rc |-> None, adm |-> FALSE, mfail |-> FALSE, cfail |-> FALSE,
     todo |-> <<>>, elig |-> <<>>]

\* the ids, in ascending order, of the rows of the users table
RECURSIVE UserRows(_, _)
UserRows(tb, i) ==
    IF i > Bot THEN <<>>
    ELSE (IF tb.users[i] > 0 THEN <<i>> ELSE <<>>) \o UserRows(tb, i + 1)

adminRest ==
    <<membership_cache, referral_cache, member, SHARES_REQUIRED, fails,
      changes, pool_lock, cooldowns, first_time_users>>

\* a callback query with an admin button's data from chat u: the handler
\* resolves the status of call.message.chat.id first
AdminCallback(t, u, data) ==
    /\ Free(t)
    /\ hcalls < MaxHandlerCalls
    /\ hcalls' = hcalls + 1
    /\ hs' = [hs EXCEPT ![t] =
                 Append(Append(@, HFrame(data, "b_branch", u, u, 0)), GusFrame(u))]
    /\ UNCHANGED <<db, hist, adminRest>>
    /\ UNCHANGED otherVars

\* the message that follows the prompt of ask_for_text_message
NextStep(t, u) ==
    /\ Free(t)
    /\ hcalls < MaxHandlerCalls
    /\ hcalls' = hcalls + 1
    /\ hs' = [hs EXCEPT ![t] = Append(Append(@, ProcessFrame(u)), GusFrame(u))]
    /\ UNCHANGED <<db, hist, adminRest>>
    /\ UNCHANGED otherVars

\* a test of is_admin that every status passes
DeniedNever(f) == FALSE

\* if not user_status['is_admin']
Denied(f) == ~f.adm

\* send_prediction_menu, ask_for_text_message, admin_actions: the denial for
\* a user who is not an admin; else the menu, the prompt, or the action
CallbackBranch(t) ==
    /\ Top(hs[t]).fn \in AdminData
    /\ Top(hs[t]).pc = "b_branch"
    /\ LET f == Top(hs[t]) IN
          IF Denied(f)
          THEN /\ hist' = [hist EXCEPT !.denied[f.u] = @ + 1]
               /\ hs' = [hs EXCEPT ![t] = Return(@)]
          ELSE /\ hist' = hist
               /\ hs' = [hs EXCEPT ![t] =
                            IF f.fn \in {"check_requests", "clear_requests"}
                            THEN SetTop(@, [f EXCEPT !.pc = "b_action"])
                            ELSE Return(@)]
    /\ UNCHANGED <<db, hcalls, adminRest>>
    /\ UNCHANGED otherVars

\* get_live_requests: check_db_connection, then the SELECT
CheckRequests(t) ==
    /\ Active(t, "check_requests", "b_action")
    /\ pool_lock = 0
    /\ hs' = [hs EXCEPT ![t] = Return(@)]
    /\ UNCHANGED <<db, hist, hcalls, adminRest>>
    /\ UNCHANGED otherVars

\* clear_live_requests: check_db_connection, then TRUNCATE TABLE
\* live_requests, committed or not
ClearRequests(t) ==
    /\ Active(t, "clear_requests", "b_action")
    /\ pool_lock = 0
    /\ \E ok \in {TRUE} \cup {b \in {FALSE} : MayFail} :
          /\ fails' = IF ok THEN fails ELSE fails + 1
          /\ db' = IF ok THEN [db EXCEPT !.live = [u \in Users |-> 0]] ELSE db
    /\ hs' = [hs EXCEPT ![t] = Return(@)]
    /\ UNCHANGED <<membership_cache, referral_cache, member, SHARES_REQUIRED,
                   hcalls, changes, hist, pool_lock, cooldowns, first_time_users>>
    /\ UNCHANGED otherVars

\* process_text_message: a silent return for a user who is not an admin,
\* else verified_users = get_users()
ProcessBranch(t) ==
    /\ Active(t, "ptm", "p_branch")
    /\ pool_lock = 0
    /\ LET f == Top(hs[t]) IN
          hs' = [hs EXCEPT ![t] =
                    IF Denied(f) THEN Return(@)
                    ELSE SetTop(@, [f EXCEPT !.pc = "p_filter",
                                             !.todo = UserRows(db, 1)])]
    /\ UNCHANGED <<db, hist, hcalls, adminRest>>
    /\ UNCHANGED otherVars

\* for user in verified_users: user_status = get_user_status(uid)
FilterCall(t) ==
    /\ Active(t, "ptm", "p_filter")
    /\ Top(hs[t]).todo # <<>>
    /\ hs' = [hs EXCEPT ![t] =
                 CallFrom(@, "p_status", GusFrame(Head(Top(hs[t]).todo)))]
    /\ UNCHANGED <<db, hist, hcalls, adminRest>>
    /\ UNCHANGED otherVars

\* if user_status['is_member'] and (SHARES_REQUIRED == 0 or ...):
\* eligible_users.append(uid)
FilterAppend(t) ==
    /\ Active(t, "ptm", "p_status")
    /\ LET f == Top(hs[t])
           uid == Head(f.todo)
       IN hs' = [hs EXCEPT ![t] =
                    SetTop(@, [f EXCEPT
                       !.pc = "p_filter",
                       !.todo = Tail(@),
                       !.elig = IF GateWelcome(f.m, f.rc, SHARES_REQUIRED)
                                THEN Append(@, uid) ELSE @])]
    /\ UNCHANGED <<db, hist, hcalls, adminRest>>
    /\ UNCHANGED otherVars

\* send_batch_messages(bot, eligible_users, send_message): every send is
\* delivered or raises, and the report goes to the admin
Broadcast(t) ==
    /\ Active(t, "ptm", "p_filter")
    /\ Top(hs[t]).todo = <<>>
    /\ \E lost \in SUBSET Range(Top(hs[t]).elig) :
          /\ Cardinality(lost) <= MaxFailures - fails
          /\ fails' = fails + Cardinality(lost)
          /\ hist' = [hist EXCEPT !.broadcast =
                         [u \in Users |->
                            IF u \in Range(Top(hs[t]).elig) \ lost
                            THEN @[u] + 1 ELSE @[u]]]
    /\ hs' = [hs EXCEPT ![t] = Return(@)]
    /\ UNCHANGED <<db, membership_cache, referral_cache, member, SHARES_REQUIRED,
                   hcalls, changes, pool_lock, cooldowns, first_time_users>>
    /\ UNCHANGED otherVars


\* user 2 is saved and has a live request; user 1 may be saved as well
BroadcastTables ==
    {[NoTables EXCEPT !.users[2] = 1, !.live[2] = 1],
     [NoTables EXCEPT !.users[1] = 1, !.users[2] = 1, !.live[2] = 1]}

AdminActionsInit ==
    /\ CacheStart(1)
    /\ PoolStart /\ TxStart /\ BatchStart /\ WebhookStart
    /\ GateStart(PyFalse, 0, 1)
    /\ \E tb \in BroadcastTables, m2 \in BOOLEAN :
          HandlerStart(tb, [u \in Users |-> u = 1 \/ m2], 0)

AdminActionsNext ==
    \/ \E t \in Threads, u \in Users, data \in AdminData : AdminCallback(t, u, data)
    \/ \E t \in Threads, u \in Users : NextStep(t, u)
    \/ \E t \in Threads : GusRead(t)
    \/ \E t \in Threads : GusAdmin(t)
    \/ \E t \in Threads : GusAdminFails(t)
    \/ \E t \in Threads : GusPlatform(t)
    \/ \E t \in Threads : GusCacheMembership(t)
    \/ \E t \in Threads : GusCount(t)
    \/ \E t \in Threads : CallbackBranch(t)
    \/ \E t \in Threads : CheckRequests(t)
    \/ \E t \in Threads : ClearRequests(t)
    \/ \E t \in Threads : ProcessBranch(t)
    \/ \E t \in Threads : FilterCall(t)
    \/ \E t \in Threads : FilterAppend(t)
    \/ \E t \in Threads : Broadcast(t)

SpecAdminActions == AdminActionsInit /\ [][AdminActionsNext]_vars

\* thread t takes the step that tests is_admin, with a status that says the
\* user is not an admin
Rejects(t) ==
    /\ Top(hs[t]).pc \in {"b_branch", "p_branch"}
    /\ ~Top(hs[t]).adm
    /\ hs'[t] # hs[t]

\* the handler of thread t ends in this step, which sends no broadcast
\* message and leaves the tables alone
EndsWithoutEffect(t) ==
    /\ hs'[t] = Return(hs[t])
    /\ db' = db
    /\ hist'.broadcast = hist.broadcast

\* C21 as stated: an admin action by a user whose is_admin resolved False
\* (the admins query failed, or found no row) is rejected with a denial
\* shown to the user and has no effect: no broadcast message is sent and no
\* live_requests row is removed.
C21_Original ==
    [][\A t \in Threads :
          Rejects(t) =>
             /\ EndsWithoutEffect(t)
             /\ hist'.denied[Top(hs[t]).u] = hist.denied[Top(hs[t]).u] + 1]_vars

\* C21 amended: an admin action by a user whose is_admin resolved False ends
\* at the test with no effect: no broadcast message is sent and no
\* live_requests row is removed.  The callbacks answer "Unauthorized
\* access!"; process_text_message returns without any message to the user.
C21_RejectedWithoutEffect ==
    [][\A t \in Threads :
          Rejects(t) =>
             /\ EndsWithoutEffect(t)
             /\ hist'.denied[Top(hs[t]).u] =
                   hist.denied[Top(hs[t]).u]
                      + (IF Top(hs[t]).fn \in AdminData THEN 1 ELSE 0)]_vars

\* user 1, whose admins query failed, was denied while user 2 still has the
\* live request and has received no broadcast
C21_Witness ==
    /\ fails = 1
    /\ hist.denied[1] = 1
    /\ \A t \in Threads : Top(hs[t]).fn = "idle"
    /\ db.live[2] = 1
    /\ hist.broadcast[2] = 0
    /\ 1 \in db.admins


(***************************************************************************)
(* Claims about the users table, under Spec.                               *)
(***************************************************************************)
\* thread t is in the db_cursor block of save_user_if_eligible(user i), with
\* a status, resolved after the pops of that call, of a member whose
\* referral count meets the quota
SavesEligible(t, i) ==
    /\ Active(t, "sue", "s_tx")
    /\ Top(hs[t]).u = i
    /\ Top(hs[t]).m = PyTrue
    /\ (SHARES_REQUIRED = 0 \/ Top(hs[t]).rc >= SHARES_REQUIRED)
    /\ hs'[t] # hs[t]

\* C22: a users row for i is inserted only by a save_user_if_eligible call
\* for i whose status, resolved after that call popped both cache entries
\* of i, has is_member true and a referral count that meets the quota; the
\* users table has at most one row per id; no step deletes a users row.
C22_UsersRows ==
    /\ [](\A i \in Ids : db.users[i] <= 1)
    /\ [][\A i \in Ids :
             /\ db'.users[i] >= db.users[i]
             /\ db'.users[i] > db.users[i] => \E t \in Threads : SavesEligible(t, i)]_vars

\* a users row for user 1 was inserted, and two handlers have run to their end
C22_Witness ==
    /\ db.users[1] = 1
    /\ hcalls = 2
    /\ \A t \in Threads : Top(hs[t]).fn = "idle"


(***************************************************************************)
(* SpecBatch: one call of send_batch_messages(bot, user_ids, send_func).   *)
(* Every send_func call returns or raises.                                 *)
(***************************************************************************)
BATCH_SIZE == 30

\* the lists passed as user_ids: the ids 1..n in ascending or descending
\* order
IdLists ==
    {[k \in 1..n |-> k] : n \in 0..MaxIds}
       \cup {[k \in 1..n |-> n + 1 - k] : n \in 0..MaxIds}

\* a slice that takes the rest of the list
SliceRest(l, i) == SubSeq(l, i + 1, Len(l))

\* user_ids[i:i+BATCH_SIZE]
Slice(l, i) ==
    SubSeq(l, i + 1, IF i + BATCH_SIZE < Len(l) THEN i + BATCH_SIZE ELSE Len(l))

\* a send whose exception leaves the function
CountSendNoCatch(b, ok) ==
    IF ok THEN [b EXCEPT !.success = @ + 1, !.j = @ + 1]
    ELSE [b EXCEPT !.pc = "done", !.raised = @ + 1]

\* try: send_func(user_id); success += 1; except Exception: failures += 1
CountSend(b, ok) ==
    IF ok THEN [b EXCEPT !.success = @ + 1, !.j = @ + 1]
    ELSE [b EXCEPT !.failures = @ + 1, !.j = @ + 1, !.raised = @ + 1]

batchRest == <<cacheVars, poolVars, handlerVars, txVars, gate, webhook>>

\* the call: success = 0, failures = 0
BatchCall(l) ==
    /\ batch.pc = "idle"
    /\ batch' = [batch EXCEPT !.pc = "range", !.user_ids = l]
    /\ UNCHANGED batchRest

\* for i in range(0, len(user_ids), BATCH_SIZE): batch = user_ids[i:i+BATCH_SIZE];
\* after the last batch, return success, failures
BatchNext ==
    /\ batch.pc = "range"
    /\ batch' = IF batch.i < Len(batch.user_ids)
                THEN [batch EXCEPT !.pc = "send", !.j = 0,
                                   !.size = Len(Slice(batch.user_ids, batch.i)),
                                   !.batches = @ + 1]
                ELSE [batch EXCEPT !.pc = "done"]
    /\ UNCHANGED batchRest

\* for user_id in batch: one send_func call
BatchSend ==
    /\ batch.pc = "send"
    /\ batch.j < batch.size
    /\ \E ok \in BOOLEAN :
          batch' = CountSend([batch EXCEPT !.trace =
                                  Append(@, Slice(batch.user_ids, batch.i)[batch.j + 1])],
                             ok)
    /\ UNCHANGED batchRest

\* time.sleep(DELAY) after the batch, then the next value of i
BatchSleep ==
    /\ batch.pc = "send"
    /\ batch.j = batch.size
    /\ batch' = [batch EXCEPT !.pc = "range", !.i = @ + BATCH_SIZE,
                              !.trace = Append(@, 0)]
    /\ UNCHANGED batchRest

BatchInit ==
    /\ CacheStart(1)
    /\ PoolStart /\ TxStart /\ BatchStart /\ WebhookStart
    /\ HandlerStart(NoTables, NobodyJoined, 1)
    /\ GateStart(PyFalse, 0, 1)

BatchSteps ==
    \/ \E l \in IdLists : BatchCall(l)
    \/ BatchNext
    \/ BatchSend
    \/ BatchSleep

SpecBatch == BatchInit /\ [][BatchSteps]_vars

\* the ids passed to send_func so far, in the order of the calls
Sends(tr) == SelectSeq(tr, LAMBDA x : x # 0)

\* the number of sleeps before position p of the trace
RECURSIVE SleepsBefore(_, _)
SleepsBefore(tr, p) ==
    IF p <= 1 THEN 0
    ELSE SleepsBefore(tr, p - 1) + (IF tr[p - 1] = 0 THEN 1 ELSE 0)

\* C23: send_batch_messages calls send_func once for every id of user_ids,
\* in list order, whether earlier sends raised or not; the counts it
\* returns sum to len(user_ids), and failures is the number of sends that
\* raised.
C23_EverySendCounted ==
    /\ \E k \in 0..Len(batch.user_ids) :
          Sends(batch.trace) = SubSeq(batch.user_ids, 1, k)
    /\ batch.pc = "done" =>
          /\ Sends(batch.trace) = batch.user_ids
          /\ batch.success + batch.failures = Len(batch.user_ids)
          /\ batch.failures = batch.raised

\* 65 ids in descending order, two of the sends raised: 63 successes
\* returned
C23_Witness ==
    /\ batch.pc = "done"
    /\ Len(batch.user_ids) = 65
    /\ batch.user_ids[1] = 65
    /\ batch.raised = 2
    /\ batch.success = 63

\* C24: n candidates are sent in ceil(n/30) consecutive batches of at most
\* 30 ids, one send after the other, with one sleep of the fixed delay
\* between each pair of consecutive batches: the send number k comes after
\* exactly (k - 1) div 30 sleeps.
C24_BatchesAndSleeps ==
    /\ batch.size <= BATCH_SIZE
    /\ \A p \in 1..Len(batch.trace) :
          batch.trace[p] # 0 =>
             SleepsBefore(batch.trace, p)
                = (Len(Sends(SubSeq(batch.trace, 1, p))) - 1) \div BATCH_SIZE
    /\ batch.pc = "done" =>
          batch.batches = (Len(batch.user_ids) + BATCH_SIZE - 1) \div BATCH_SIZE

\* 65 candidates, sent in 3 batches: the last one has 5 ids
C24_Witness ==
    /\ batch.pc = "done"
    /\ Len(batch.user_ids) = 65
    /\ batch.batches = 3
    /\ batch.size = 5
    /\ Len(Sends(batch.trace)) = 65


(***************************************************************************)
(* Claims about the db_cursor block of check_membership, under Spec.       *)
(***************************************************************************)
\* thread t runs the block of check_membership for a user resolved as a
\* member
VerifiesMember(t) ==
    /\ Active(t, "cm", "c_tx")
    /\ Top(hs[t]).m = PyTrue
    /\ hs'[t] # hs[t]

\* C25: when check_membership runs its block for a member who has no
\* pending row, no referrals row is inserted, no row is deleted, the
\* referral-count cache entry of every other user stays as it is, and the
\* block raises no error: unless the database fails, the handler goes on to
\* refresh the status.
C25_NoPendingNoChange ==
    [][\A t \in Threads :
          (VerifiesMember(t) /\ db.pending[Top(hs[t]).u] = <<>>) =>
             /\ db'.referrals = db.referrals
             /\ db'.pending = db.pending
             /\ \A k \in Ids \ {Top(hs[t]).u} :
                   StoredValue(referral_cache', k) = StoredValue(referral_cache, k)
             /\ fails' = fails =>
                   hs'[t] = CallFrom(hs[t], "c_ans", GusFrame(Top(hs[t]).u))]_vars

\* user 1, who never had a pending row, verified as a member; the handler
\* is refreshing the status
C25_Witness ==
    \E t \in Threads :
       /\ Len(hs[t]) = 3
       /\ hs[t][2].fn = "cm"
       /\ hs[t][2].pc = "c_ans"
       /\ hs[t][2].m = PyTrue
       /\ hist.lastRef[hs[t][2].u] = 0
       /\ db.pending[hs[t][2].u] = <<>>


\* C26: a referrals row, once stored, stays as it is: no step of a handler
\* deletes one or changes one.
C26_ReferralsPermanent ==
    [][\A p \in Pairs : db'.referrals[p] >= db.referrals[p]]_vars

\* the row (1, 2) the run started with is still there after the row (2, 1)
\* was confirmed
C26_Witness ==
    /\ db.referrals[<<1, 2>>] = 1
    /\ db.referrals[<<2, 1>>] = 1


(***************************************************************************)
(* SpecLive: the live_requests table.  request_live_prediction with the    *)
(* value save_live_request returns, and the admin callback clear_requests. *)
(***************************************************************************)
\* a save that reports True whenever the statement and the commit succeed
SavedAlways(tb, user_id, ok) == ok

\* save_live_request: cur.fetchone() is not None, for INSERT ... ON CONFLICT
\* (user_id) DO NOTHING RETURNING id; False from the except clause when the
\* block raises
Saved(tb, user_id, ok) == ok /\ tb.live[user_id] = 0

\* request_live_prediction: if save_live_request(user_id), one db_cursor
\* block; the frame goes to "r_sent" on True and to "r_already" on False
SaveLiveRequest(t) ==
    /\ Active(t, "rl", "r_save")
    /\ pool_lock = 0
    /\ LET f == Top(hs[t]) IN
       \E ok \in BOOLEAN :
          /\ ok \/ MayFail
          /\ fails' = IF ok THEN fails ELSE fails + 1
          /\ db' = IF ok THEN InsertLive(db, f.u) ELSE db
          /\ hs' = [hs EXCEPT ![t] =
                       SetTop(@, [f EXCEPT !.pc = IF Saved(db, f.u, ok)
                                                  THEN "r_sent" ELSE "r_already"])]
    /\ UNCHANGED <<membership_cache, referral_cache, member, SHARES_REQUIRED,
                   hcalls, changes, hist, pool_lock>>
    /\ UNCHANGED <<cooldowns, first_time_users>>
    /\ UNCHANGED otherVars

\* request_live_prediction: count_live_requests, the answer and
\* notify_admins after a save, "You already have a pending request!"
\* otherwise
RlAnswer(t) ==
    /\ Top(hs[t]).fn = "rl"
    /\ Top(hs[t]).pc \in {"r_sent", "r_already"}
    /\ Top(hs[t]).pc = "r_sent" => pool_lock = 0
    /\ hs' = [hs EXCEPT ![t] = Return(@)]
    /\ UNCHANGED <<db, hist, hcalls, adminRest>>
    /\ UNCHANGED otherVars

\* nobody has a live request, or user 2 has one
LiveTables == {NoTables, [NoTables EXCEPT !.live[2] = 1]}

LiveInit ==
    /\ CacheStart(1)
    /\ PoolStart /\ TxStart /\ BatchStart /\ WebhookStart
    /\ GateStart(PyFalse, 0, 1)
    /\ \E tb \in LiveTables, m2 \in BOOLEAN :
          HandlerStart(tb, [u \in Users |-> u = 1 \/ m2], 0)

LiveNext ==
    \/ \E t \in Threads, u \in Users : GatedCallback(t, u, "rl")
    \/ \E t \in Threads, u \in Users : AdminCallback(t, u, "clear_requests")
    \/ \E t \in Threads : GusRead(t)
    \/ \E t \in Threads : GusAdmin(t)
    \/ \E t \in Threads : GusPlatform(t)
    \/ \E t \in Threads : GusCacheMembership(t)
    \/ \E t \in Threads : GusCount(t)
    \/ \E t \in Threads : RlGate(t)
    \/ \E t \in Threads : SaveLiveRequest(t)
    \/ \E t \in Threads : RlAnswer(t)
    \/ \E t \in Threads : CallbackBranch(t)
    \/ \E t \in Threads : ClearRequests(t)

SpecLive == LiveInit /\ [][LiveNext]_vars

\* thread t takes the step that is the save_live_request call
Saves(t) == Active(t, "rl", "r_save") /\ hs'[t] # hs[t]

\* thread t takes the step that is clear_live_requests, for an admin, and
\* the database does not fail
Clears(t) ==
    /\ Active(t, "clear_requests", "b_action")
    /\ hs'[t] # hs[t]
    /\ fails' = fails

\* C27: live_requests holds at most one row per user; save_live_request
\* for a user who has a row inserts nothing and returns False, and it
\* returns True exactly when it inserted a row; clear_requests by an admin
\* removes every row.
C27_LiveRequests ==
    /\ [](\A u \in Users : db.live[u] <= 1)
    /\ [][\A t \in Threads :
             /\ Saves(t) =>
                   /\ (Top(hs'[t]).pc = "r_sent"
                         <=> db'.live[Top(hs[t]).u] > db.live[Top(hs[t]).u])
                   /\ db.live[Top(hs[t]).u] > 0 =>
                         (db' = db /\ Top(hs'[t]).pc = "r_already")
             /\ Clears(t) => \A u \in Users : db'.live[u] = 0]_vars

\* a user who has a row asked again: save_live_request returned False with
\* no database failure, and the table holds the one row
C27_Witness ==
    \E t \in Threads :
       /\ Top(hs[t]).fn = "rl"
       /\ Top(hs[t]).pc = "r_already"
       /\ fails = 0
       /\ db.live[Top(hs[t]).u] = 1


(***************************************************************************)
(* Claims about the cache locks, under SpecLocks.                          *)
(***************************************************************************)
CacheLockNames == {"membership_cache.lock", "referral_cache.lock"}

HoldsCacheLock(t) == \E l \in CacheLockNames : locks[l] = t

\* the positions of the dict operations inside ExpiringCache.get,
\* __setitem__ and pop
CacheOpPcs ==
    {"g_m_get", "g_r_get", "g_m_set", "g_r_set",
     "c_m_pop", "c_r_pop", "c_rx_pop", "c_mx_pop", "s_r_pop"}

\* C28: a thread that holds the lock of a cache is inside get, set or pop
\* of that cache: it is not waiting for pool_lock or any other lock, and
\* its next step is the cache operation, which releases the lock and with
\* it executes no statement, commits nothing, queries no membership and
\* sends nothing.
C28_CacheLockIsLeaf ==
    /\ [](\A t \in Threads : HoldsCacheLock(t) => Top(hs[t]).pc \in CacheOpPcs)
    /\ [][\A t \in Threads :
             (HoldsCacheLock(t) /\ hs'[t] # hs[t]) =>
                /\ ~HoldsCacheLock(t)'
                /\ pool_lock' = pool_lock
                /\ db' = db
                /\ fails' = fails
                /\ hist' = hist
                /\ cooldowns' = cooldowns]_vars

\* inside the block of check_membership, which holds pool_lock, the thread
\* has taken the lock of referral_cache for the pop of the referrer's count
C28_Witness ==
    \E t \in Threads :
       /\ pool_lock = t
       /\ locks["referral_cache.lock"] = t
       /\ Top(hs[t]).pc = "c_rx_pop"


(***************************************************************************)
(* Claims about check_membership and the pending row, under Spec.          *)
(***************************************************************************)
\* thread t takes a step of a check_membership handler
CheckMembershipStep(t) ==
    /\ Len(hs[t]) >= 2
    /\ hs[t][2].fn = "cm"
    /\ hs'[t] # hs[t]

\* C29: check_membership changes pending_referrals and referrals only in
\* the block it runs for a user resolved as a member; a call in which the
\* user resolved as not a member leaves both tables as they are and ends,
\* so the user's pending row stays, with its referrer, for a later
\* verification.
C29_NonMemberKeepsPending ==
    [][\A t \in Threads :
          /\ (CheckMembershipStep(t) /\ ~VerifiesMember(t)) =>
                (db'.pending = db.pending /\ db'.referrals = db.referrals)
          /\ (Active(t, "cm", "c_tx") /\ Top(hs[t]).m # PyTrue /\ hs'[t] # hs[t]) =>
                (db' = db /\ hs'[t] = Return(hs[t]))]_vars

\* user 1, whose pending row names referrer 3, is resolved as not a member
\* by check_membership
C29_Witness ==
    \E t \in Threads :
       /\ Active(t, "cm", "c_tx")
       /\ Top(hs[t]).m = PyFalse
       /\ ~Top(hs[t]).mfail
       /\ db.pending[Top(hs[t]).u] = <<3>>


(***************************************************************************)
(* Claims about pool_monitor, under SpecPoolFair.                          *)
(***************************************************************************)
\* pool_monitor is inside a cycle: in check_pool_health, init_db_pool or
\* maintain_pool
InCycle == Len(stack[Monitor]) > 1 \/ Top(stack[Monitor]).pc # "sleep"

\* pool_monitor is back in time.sleep(300), holding nothing
Sleeping ==
    /\ Len(stack[Monitor]) = 1
    /\ Top(stack[Monitor]).pc = "sleep"
    /\ pool_lock # Monitor

\* C30: every cycle of pool_monitor ends, whether its health check or its
\* reinitialization failed or not: the monitor gets back to its sleep, from
\* which the next cycle begins, and never blocks forever.  Stated for
\* the cycles during which no storage call of a worker fails, so that only
\* the monitor's own calls can keep it.
C30_MonitorGoesOn ==
    InCycle ~> (Sleeping \/ \E w \in Workers : InFailure(w))


(***************************************************************************)
(* SpecIdle: SpecPool while time passes, for maintain_pool.                *)
(***************************************************************************)
\* time passes
Elapse ==
    /\ now < MaxElapsed
    /\ now' = now + ElapseStep
    /\ UNCHANGED <<cache, cacheLock, cop, ret, watch, lastSet, popped, evicted, order>>
    /\ UNCHANGED <<poolVars, handlerVars, gateVars, txVars>>

IdleNext ==
    \/ PoolNext
    \/ Elapse

SpecIdle == Init /\ [][IdleNext]_vars

\* maintain_pool closes the idle connection in this step
ClosesIdle ==
    /\ Top(stack[Monitor]).pc = "maintain"
    /\ stack'[Monitor] # stack[Monitor]
    /\ db_pool.idle # "none"
    /\ db_pool'.idle = "none"

\* C31: maintain_pool closes and removes an idle pooled connection only if
\* it has been idle for more than the 1-hour threshold; an idle connection
\* used more recently than that stays in the pool.
C31_ClosesOnlyIdleHour ==
    [][ClosesIdle => now - db_pool.used > 3600]_vars


(***************************************************************************)
(* SpecPending: process_pending_referral and save_referral, lock by lock.  *)
(* Both open a db_cursor block, which holds pool_lock (a threading.Lock,   *)
(* not reentrant) from its acquisition to its commit or rollback.          *)
(***************************************************************************)
\* process_pending_referral(u) is called on a free worker
PprCall(t, u) ==
    /\ Free(t)
    /\ hcalls < MaxHandlerCalls
    /\ hcalls' = hcalls + 1
    /\ hs' = [hs EXCEPT ![t] = Append(@, HFrame("ppr", "p_lock", u, u, 0))]
    /\ snap' = [snap EXCEPT ![t] = [m |-> membership_cache, r |-> referral_cache]]
    /\ UNCHANGED <<db, membership_cache, referral_cache, member, SHARES_REQUIRED,
                   fails, changes, hist, cooldowns, first_time_users, pool_lock, locks>>
    /\ UNCHANGED lockRest

\* with db_cursor() as cur: db_connection waits for pool_lock and takes it
PprAcquire(t) ==
    /\ Active(t, "ppr", "p_lock")
    /\ pool_lock = 0
    /\ pool_lock' = t
    /\ hs' = [hs EXCEPT ![t] = SetTop(@, [Top(@) EXCEPT !.pc = "p_delete"])]
    /\ UNCHANGED <<db, membership_cache, referral_cache, member, SHARES_REQUIRED,
                   hcalls, fails, changes, hist, cooldowns, first_time_users,
                   locks, snap>>
    /\ UNCHANGED lockRest

\* DELETE ... RETURNING referrer_id, not committed yet; with a row,
\* save_referral(referrer_id, user_id) is called inside the block
PprDelete(t) ==
    /\ Active(t, "ppr", "p_delete")
    /\ LET f == Top(hs[t])
           r == Returning(db, f.u)
       IN hs' = [hs EXCEPT ![t] =
             IF r # 0
             THEN Append(SetTop(@, [f EXCEPT !.ref = r, !.pc = "p_saved"]),
                         HFrame("sr", "s_tx_lock", f.u, f.u, r))
             ELSE SetTop(@, [f EXCEPT !.pc = "p_end"])]
    /\ UNCHANGED <<db, membership_cache, referral_cache, member, SHARES_REQUIRED,
                   hcalls, fails, changes, hist, cooldowns, first_time_users,
                   pool_lock, locks, snap>>
    /\ UNCHANGED lockRest

\* the rest of the block: after save_referral returned True the two pops and
\* return True, else return False; leaving the block commits the DELETE, or
\* the commit fails, the block is rolled back and the except clause returns
\* False; pool_lock is released
PprEnd(t) ==
    /\ Top(hs[t]).fn = "ppr"
    /\ Top(hs[t]).pc \in {"p_end", "p_saved"}
    /\ pool_lock' = 0
    /\ LET f == Top(hs[t])
           saved == f.pc = "p_saved"
       IN \E ok \in BOOLEAN :
          /\ ok \/ MayFail
          /\ fails' = IF ok THEN fails ELSE fails + 1
          /\ db' = IF ok THEN DeletePending(db, f.u) ELSE db
          /\ referral_cache' = IF saved THEN Pop(referral_cache, f.ref, now, REFERRAL_TTL).c
                               ELSE referral_cache
          /\ membership_cache' = IF saved THEN Pop(membership_cache, f.u, now, MEMBERSHIP_TTL).c
                                 ELSE membership_cache
          /\ hs' = [hs EXCEPT ![t] =
                       SetTop(@, [f EXCEPT !.pc = IF saved /\ ok THEN "p_true" ELSE "p_false"])]
    /\ UNCHANGED <<member, SHARES_REQUIRED, hcalls, changes, hist, cooldowns,
                   first_time_users, locks, snap>>
    /\ UNCHANGED lockRest

\* process_pending_referral returns True or False to its caller
PprReturn(t) ==
    /\ Top(hs[t]).fn = "ppr"
    /\ Top(hs[t]).pc \in {"p_true", "p_false"}
    /\ hs' = [hs EXCEPT ![t] = Return(@)]
    /\ UNCHANGED <<db, membership_cache, referral_cache, member, SHARES_REQUIRED,
                   hcalls, fails, changes, hist, cooldowns, first_time_users,
                   pool_lock, locks, snap>>
    /\ UNCHANGED lockRest

PendingInit ==
    /\ CacheStart(1)
    /\ PoolStart /\ TxStart /\ BatchStart /\ WebhookStart
    /\ GateStart(PyFalse, 0, 1)
    /\ \E tb \in {NoTables, PendingTables}, m1 \in BOOLEAN :
          HandlerStart(tb, [u \in Users |-> u = 1 /\ m1], 1)

PendingStep(t) ==
    \/ \E u \in Actors : PprCall(t, u)
    \/ \E u \in Actors : LockedCall(t, u, "sr", 2)
    \/ PprAcquire(t)
    \/ PprDelete(t)
    \/ PprEnd(t)
    \/ PprReturn(t)
    \/ LockedAcquire(t)
    \/ LockedStatements(t)
    \/ LockedPop(t)
    \/ LockedCommit(t)
    \/ LockedEnd(t)

PendingNext == \E t \in Threads : PendingStep(t)

\* the threads are scheduled fairly
SpecPending == PendingInit /\ [][PendingNext]_vars
                  /\ \A t \in Threads : WF_vars(PendingStep(t))

\* thread t is inside a call of process_pending_referral
InPpr(t) == \E i \in 1..Len(hs[t]) : hs[t][i].fn = "ppr"

\* C32: process_pending_referral(u) terminates for every input: with a
\* pending row (r, u) it deletes the row, stores Referral(r, u) through
\* save_referral, invalidates the referral-count cache of r and the
\* membership cache of u and returns True; without one it returns False and
\* changes nothing.
C32_PendingProcessed ==
    /\ \A t \in Threads : InPpr(t) ~> ~InPpr(t)
    /\ [][\A t \in Threads :
             (Top(hs[t]).fn = "ppr" /\ hs'[t] # hs[t] /\ Top(hs'[t]).pc = "p_true")
                => (/\ db.pending[Top(hs[t]).u] # <<>>
                    /\ db'.pending[Top(hs[t]).u] = <<>>
                    /\ db'.referrals[<<Top(hs[t]).ref, Top(hs[t]).u>>] = 1)]_vars
    /\ [][\A t \in Threads :
             (Top(hs[t]).fn = "ppr" /\ hs'[t] # hs[t] /\ Top(hs'[t]).pc = "p_false")
                => (db.pending[Top(hs[t]).u] = <<>> /\ db' = db)]_vars


(***************************************************************************)
(* SpecBackground: the two background threads of __main__, pool_monitor    *)
(* and the webhook check, next to the workers' storage calls.              *)
(***************************************************************************)
webhookRest == <<cacheVars, poolVars, handlerVars, txVars, gate, batch>>

\* somebody else registers a webhook for the bot
Hijack ==
    /\ webhook.hijacks < MaxHijacks
    /\ webhook' = [webhook EXCEPT !.url = "other", !.hijacks = @ + 1]
    /\ UNCHANGED webhookRest

\* time.sleep(3600) of the thread's lambda is over
WebhookWake ==
    /\ webhook.pc = "sleep"
    /\ webhook' = [webhook EXCEPT !.pc = "verify"]
    /\ UNCHANGED webhookRest

\* verify_webhook_ownership(): a webhook that is not the expected one is
\* removed and set again by set_secure_webhook, which may fail after the
\* removal; then the list of the lambda is built and the thread's target
\* returns
VerifyWebhook ==
    /\ webhook.pc = "verify"
    /\ \E ok \in BOOLEAN :
          webhook' = [webhook EXCEPT
                         !.pc = "ended",
                         !.checks = @ + 1,
                         !.url = IF webhook.url = "ours" THEN "ours"
                                 ELSE IF ok THEN "ours" ELSE "none"]
    /\ UNCHANGED webhookRest

WebhookStep == WebhookWake \/ VerifyWebhook

BackgroundNext ==
    \/ PoolNext
    \/ WebhookStep
    \/ Hijack

\* the threads are scheduled fairly
SpecBackground ==
    /\ Init /\ [][BackgroundNext]_vars
    /\ \A t \in PoolThreads : WF_vars(PoolStep(t))
    /\ WF_vars(WebhookStep)

\* C33: the webhook ownership check started at bootstrap is periodic:
\* verify_webhook_ownership is executed again and again, once per hour, for
\* as long as the process runs.
C33_ChecksForever == []<>(webhook.pc = "verify")


(***************************************************************************)
(* Claims about the transaction of check_membership, under SpecLocks.      *)
(***************************************************************************)
\* the db_cursor block of thread t ends in this step with a failed commit
FailsCommit(t) ==
    /\ Top(hs[t]).fn = "cm"
    /\ Top(hs[t]).pc = "commit"
    /\ hs'[t] # hs[t]
    /\ Top(hs'[t]).pc = "failed"

\* C34: in check_membership the delete of the pending row and the insert of
\* the referrals row take effect together or not at all: when the
\* transaction fails after the delete, the pending row is still present and
\* no referrals row was added; no pending referral is consumed without its
\* confirmed referral.
C34_DeleteAndInsertTogether ==
    [][/\ \A u \in Users :
             (db.pending[u] # <<>> /\ db'.pending[u] = <<>>)
                => db'.referrals[<<Head(db.pending[u]), u>>] = 1
       /\ \A t \in Threads : FailsCommit(t) => db' = db]_vars

\* the transaction of check_membership failed after its DELETE found the
\* row: the row is still there and the referral is not recorded
C34_Witness ==
    \E t \in Threads :
       /\ Top(hs[t]).fn = "cm"
       /\ Top(hs[t]).pc = "failed"
       /\ Top(hs[t]).ref # 0
       /\ db.pending[Top(hs[t]).u] = <<Top(hs[t]).ref>>
       /\ db.referrals[<<Top(hs[t]).ref, Top(hs[t]).u>>] = 0


(***************************************************************************)
(* SpecFresh: SpecLocks with two users, user 2 invited by user 1: user 1   *)
(* resolves its status while user 2 verifies its membership.               *)
(***************************************************************************)
\* user 2 sent /start 1 and has not verified yet
InvitedPendingTables == [NoTables EXCEPT !.pending[2] = <<1>>]

FreshInit ==
    /\ CacheStart(1)
    /\ PoolStart /\ TxStart /\ BatchStart /\ WebhookStart
    /\ GateStart(PyFalse, 0, 1)
    /\ HandlerStart(InvitedPendingTables, [u \in Users |-> TRUE], 1)

FreshNext ==
    \/ \E t \in Threads, fn \in {"cm", "hp"} : LockedCall(t, 1, fn, 0)
    \/ \E t \in Threads : LockedCall(t, 2, "cm", 0)
    \/ \E t \in Threads : LockedCall(t, 2, "sr", 1)
    \/ \E t \in Threads : LockedAcquire(t)
    \/ \E t \in Threads : LockedGet(t)
    \/ \E t \in Threads : LockedAdmin(t)
    \/ \E t \in Threads : LockedPlatform(t)
    \/ \E t \in Threads : LockedSet(t)
    \/ \E t \in Threads : LockedCount(t)
    \/ \E t \in Threads : LockedCountEnd(t)
    \/ \E t \in Threads : LockedPop(t)
    \/ \E t \in Threads : LockedBranch(t)
    \/ \E t \in Threads : LockedStatements(t)
    \/ \E t \in Threads : LockedCommit(t)
    \/ \E t \in Threads : LockedGate(t)
    \/ \E t \in Threads : LockedCooldown(t)
    \/ \E t \in Threads : LockedEnd(t)

SpecFresh == FreshInit /\ [][FreshNext]_vars

\* C35: whenever no thread holds pool_lock, every unexpired entry of the
\* referral-count cache for a user u equals the current number of referrals
\* rows with referrer_id = u.
C35_CountCacheFresh ==
    pool_lock = 0 =>
       \A u \in Users :
          (/\ HasKey(referral_cache, u)
           /\ ~Expired(referral_cache[KeyIndex(referral_cache, u)], now, REFERRAL_TTL))
             => referral_cache[KeyIndex(referral_cache, u)].v = CountReferrals(db, u)

\* the referral of user 2 was confirmed in the run, and the count of user 1
\* in the cache is 1
C35_Witness ==
    /\ pool_lock = 0
    /\ db.referrals[<<1, 2>>] = 1
    /\ db.pending[2] = <<>>
    /\ HasKey(referral_cache, 1)
    /\ referral_cache[KeyIndex(referral_cache, 1)].v = 1


(***************************************************************************)
(* Claims about the cooldown of handle_prediction, under SpecGate.  The    *)
(* clock does not advance in SpecGate: all the steps of a run take place   *)
(* within less than COOLDOWN_SECONDS, and hist.sent[u] counts the          *)
(* prediction messages sent to u.                                          *)
(***************************************************************************)
\* C36: for a given user no two prediction messages are sent by
\* handle_prediction less than COOLDOWN_SECONDS apart, under every
\* interleaving of concurrent get_prediction callbacks of that user.
C36_OnePredictionPerCooldown == \A u \in Users : hist.sent[u] <= 1


(***************************************************************************)
(* Claims about the connections handed out, under SpecPool.                *)
(***************************************************************************)
\* thread t has a connection checked out of the pool
CheckedOut(t) == \E i \in 1..Len(stack[t]) : stack[t][i].conn.keyed

\* C37: at most one storage unit of work is in progress at any time:
\* pool_lock is held from the acquisition of a connection until after commit
\* or rollback and release, so no two threads have a connection checked out
\* of the pool at the same time.
C37_OneUnitOfWork ==
    /\ \A t \in PoolThreads : CheckedOut(t) => pool_lock = t
    /\ \A t1, t2 \in PoolThreads : (CheckedOut(t1) /\ CheckedOut(t2)) => t1 = t2

\* a worker is inside its block with a connection while the other worker
\* waits for pool_lock
C37_Witness ==
    \E t1, t2 \in Workers :
       /\ t1 # t2
       /\ CheckedOut(t1)
       /\ Top(stack[t1]).pc = "body"
       /\ Top(stack[t2]).fn = "dbc"
       /\ Top(stack[t2]).pc = "lock"


\* the finally clause of a db_connection call of thread t runs in this step
\* with a connection: `if conn:` db_pool.putconn(conn)
PutsBack(t) ==
    /\ Top(stack[t]).fn = "dbc"
    /\ Top(stack[t]).pc = "final"
    /\ stack'[t] # stack[t]
    /\ Top(stack[t]).conn.gen # 0

\* C38: every connection obtained by db_connection is handed back exactly
\* once: none is passed to putconn twice and none is returned to a pool other
\* than the one it was taken from, on the normal path and on every error
\* path.
C38_HandedBackOnce ==
    [][\A t \in PoolThreads :
          PutsBack(t) => (/\ Top(stack[t]).conn.keyed
                          /\ Top(stack[t]).conn.gen = db_pool.gen)]_vars


\* C39: handle_prediction sets the user's cooldown only after the
\* prediction message was sent successfully: when the user is denied or the
\* send fails on all retries, the cooldowns entry of that user and of every
\* other user is unchanged.
C39_CooldownOnlyAfterSend ==
    [][\A u \in Users :
          cooldowns'[u] # cooldowns[u]
             => (/\ hist.sent[u] > 0
                 /\ \E t \in Threads :
                       /\ Active(t, "hp", "h_cd")
                       /\ Top(hs[t]).u = u
                       /\ hs'[t] # hs[t])]_vars

\* the only call of handle_prediction passed the gate and the sticker, the
\* send of the prediction failed and the handler has ended: no cooldown
C39_Witness ==
    /\ hcalls = 1
    /\ \A t \in Threads : Top(hs[t]).fn = "idle"
    /\ first_time_users = {1}
    /\ fails = 1
    /\ hist.sent[1] = 0
    /\ cooldowns = [u \in Users |-> None]


(***************************************************************************)
(* Claims about the referral-count query of get_user_status, under Spec.   *)
(***************************************************************************)
\* the db_cursor block of the count query of thread t runs in this step
CountStep(t) ==
    /\ Active(t, "gus", "g_cnt")
    /\ hs'[t] # hs[t]

\* C40: when the referral-count query of get_user_status fails (the query
\* raising, or its transaction failing at commit), the call returns
\* referral_count 0 and the referral-count cache holds no entry written by
\* that call; whenever the call does write a cache entry, the count it
\* returns equals the value it cached.
C40_FailedCountNotCached ==
    [][\A t \in Threads :
          CountStep(t) =>
             LET u == Top(hs[t]).u
                 wrote == referral_cache' # referral_cache
                 kept == Top(hs'[t]).pc \notin MarkupPcs
             IN /\ fails' # fails => ~wrote
                /\ (fails' # fails /\ kept) => Top(hs'[t]).rc = 0
                /\ (wrote /\ kept /\ HasKey(referral_cache', u))
                      => Top(hs'[t]).rc = StoredValue(referral_cache', u)]_vars

=============================================================================
